---- MODULE Spec2Model ----
(***************************************************************************)
(* State-machine model of the USBDevice stack: the endpoint manager        *)
(* (usbd_ep.c), the EP0 control transfer engine (usbd_ctrl.c), the device  *)
(* and interface request handlers (usbd.c, usbd_if.c, usbd_desc.c) and the *)
(* Mass Storage Bulk-Only Transport class with its SCSI layer              *)
(* (usbd_msc.c, usbd_msc_scsi.c), the CDC Network Control Model class      *)
(* (usbd_ncm.c), the CDC-ACM class (usbd_cdc.c), the HID class             *)
(* (usbd_hid.c) and the DFU class (usbd_dfu.c), with the mount functions   *)
(* of the classes.                                                         *)
(*                                                                         *)
(* The C handlers run to completion in interrupt context, so every handler *)
(* is one atomic action.  A handler is written as an operator from a       *)
(* "world" record (the device handle, the peripheral driver, the handles   *)
(* of the MSC, NCM, CDC, HID and DFU interfaces, the logical unit and the  *)
(* observation record) to the world after the call; nested C calls are     *)
(* nested operator applications.  The field ret of the world carries the C *)
(* return value of the last call.                                          *)
(*                                                                         *)
(* Build configuration modelled: USBD_HS_SUPPORT = 0, no Microsoft OS      *)
(* descriptors, no LPM, USBD_SERIAL_BCD_SIZE = 0 (Templates/usbd_config.h),*)
(* a peripheral that applies the device address after the Status stage     *)
(* (USBD_SET_ADDRESS_IMMEDIATE = 0).  One MSC interface is mounted with    *)
(* bulk IN 0x81 and bulk OUT 0x01 and a single logical unit; the           *)
(* specifications of the NCM class mount one NCM interface instead, with   *)
(* bulk IN 0x81, bulk OUT 0x01 and the notification endpoint 0x82; the     *)
(* specifications of the CDC-ACM, HID and DFU classes mount that interface *)
(* alone (USBD_CDC_NOTEP_USED = 0, USBD_HID_OUT_SUPPORT = 0,               *)
(* USBD_DFU_ALTSETTINGS = 0, USBD_DFU_ST_EXTENSION = 0).                   *)
(***************************************************************************)
EXTENDS Integers, Sequences, FiniteSets, TLC

VARIABLES dev, pd, msc, lu, ncm, cdc, hid, dfu, obs

vars == <<dev, pd, msc, lu, ncm, cdc, hid, dfu, obs>>

----------------------------------------------------------------------------
(* Program constants *)

USBD_E_OK      == 0
USBD_E_ERROR   == 1
USBD_E_BUSY    == 2
USBD_E_INVALID == 3

USB_EP_STATE_CLOSED == 0
USB_EP_STATE_IDLE   == 1
USB_EP_STATE_STALL  == 2
USB_EP_STATE_SETUP  == 3
USB_EP_STATE_DATA   == 4
USB_EP_STATE_STATUS == 5

USB_EP_TYPE_CONTROL     == 0
USB_EP_TYPE_ISOCHRONOUS == 1
USB_EP_TYPE_BULK        == 2
USB_EP_TYPE_INTERRUPT   == 3

USB_DIRECTION_OUT == 0
USB_DIRECTION_IN  == 1

USB_REQ_TYPE_STANDARD == 0
USB_REQ_TYPE_CLASS    == 1
USB_REQ_TYPE_VENDOR   == 2

USB_REQ_RECIPIENT_DEVICE    == 0
USB_REQ_RECIPIENT_INTERFACE == 1
USB_REQ_RECIPIENT_ENDPOINT  == 2
USB_REQ_RECIPIENT_OTHER     == 3

USB_REQ_GET_STATUS        == 0
USB_REQ_CLEAR_FEATURE     == 1
USB_REQ_SET_FEATURE       == 3
USB_REQ_SET_ADDRESS       == 5
USB_REQ_GET_DESCRIPTOR    == 6
USB_REQ_GET_CONFIGURATION == 8
USB_REQ_SET_CONFIGURATION == 9
USB_REQ_GET_INTERFACE     == 10
USB_REQ_SET_INTERFACE     == 11

USB_FEATURE_EP_HALT       == 0
USB_FEATURE_REMOTE_WAKEUP == 1

USB_DESC_TYPE_DEVICE        == 1
USB_DESC_TYPE_CONFIGURATION == 2
USB_DESC_TYPE_STRING        == 3

USBD_ISTR_LANGID     == 0
USBD_ISTR_INTERFACES == 1
USBD_ISTR_VENDOR     == 16
USBD_ISTR_PRODUCT    == 32
USBD_ISTR_CONFIG     == 64

USB_EP0_FS_MAX_PACKET_SIZE == 64
USB_EP_BULK_FS_MPS         == 64
USB_EP_INTR_FS_MPS         == 64

USBD_MAX_CONFIGURATION_COUNT == 1
USBD_MAX_IF_COUNT            == 2
USBD_MAX_EP_COUNT            == 8

MSC_STATE_COMMAND_OUT == 0
MSC_STATE_DATA_OUT    == 1
MSC_STATE_DATA_IN     == 2
MSC_STATE_STATUS_IN   == 3
MSC_STATE_STALL       == 4

MSC_STATUS_NORMAL   == 0
MSC_STATUS_RECOVERY == 1
MSC_STATUS_ERROR    == 2

MSC_CSW_CMD_PASSED  == 0
MSC_CSW_CMD_FAILED  == 1

MSC_BOT_GET_MAX_LUN == 254
MSC_BOT_RESET       == 255

SCSI_TEST_UNIT_READY              == 0
SCSI_REQUEST_SENSE                == 3
SCSI_INQUIRY                      == 18
SCSI_MODE_SENSE6                  == 26
SCSI_START_STOP_UNIT              == 27
SCSI_PREVENT_ALLOW_MEDIUM_REMOVAL == 30
SCSI_READ_FORMAT_CAPACITIES       == 35
SCSI_READ_CAPACITY10              == 37
SCSI_READ10                       == 40
SCSI_WRITE10                      == 42
SCSI_VERIFY10                     == 47
SCSI_MODE_SENSE10                 == 90

SCSI_SKEY_NO_SENSE        == 0
SCSI_SKEY_NOT_READY       == 2
SCSI_SKEY_HARDWARE_ERROR  == 4
SCSI_SKEY_ILLEGAL_REQUEST == 5

SCSI_ASC_WRITE_FAULT              == 3
SCSI_ASC_UNRECOVERED_READ_ERROR   == 17
SCSI_ASC_INVALID_CDB              == 32
SCSI_ASC_ADDRESS_OUT_OF_RANGE     == 33
SCSI_ASC_INVALID_FIELD_IN_COMMAND == 36
SCSI_ASC_WRITE_PROTECTED          == 39
SCSI_ASC_MEDIUM_NOT_PRESENT       == 58

USBD_MSC_BUFFER_SIZE == 512

NTB_EMPTY        == 0
NTB_PROCESSING   == 1
NTB_TRANSFERRING == 2
NTB_READY        == 3

CDC_REQ_GET_NTB_PARAMETERS == 128
CDC_REQ_GET_NTB_INPUT_SIZE == 133
CDC_REQ_SET_NTB_INPUT_SIZE == 134

NCM_NOT_PACKET_SIZE   == 8
NCM_MAX_SEGMENT_SIZE  == 1514
USBD_NCM_MAX_OUT_SIZE == 2048
USBD_NCM_MAX_IN_SIZE  == 2048

(* sizeof() of the wire records *)
SizeofCBW            == 31
SizeofCSW            == 13
SizeofCB             == 16
SizeofDeviceDesc     == 18
SizeofConfigDesc     == 9
SizeofInterfaceDesc  == 9
SizeofEndpointDesc   == 7
SizeofLangIdDesc     == 4
SizeofInquiry        == 36
SizeofCapacity10     == 8
SizeofFormatCapacity == 12
SizeofModeSense      == 8
SizeofSenseData      == 18
SizeofNTH16          == 12
SizeofNDP16          == 12
SizeofDatagram16     == 4
SizeofNotify         == 24
SizeofNotifyHeader   == 8
SizeofNcmParameters  == 28
SizeofNtbInputSize   == 4

\* INT32_MAX; 2^32 is INT32_MAX + INT32_MAX + 2
INT32_MAX == 2147483647

----------------------------------------------------------------------------
(* Bounds of the model *)

\* CBW tags the host uses are 1..MaxTag
MaxTag == 1
\* READ10 / WRITE10 / VERIFY10 carry LBA and transfer length in 0..MaxBlocks
MaxBlocks == 2
\* blocks the host sends on the bulk OUT endpoint of the NCM interface
MaxNtb == 3
\* datagrams the application hands to the NCM interface
MaxDgs == 4
\* calls of USBD_CtrlSendData / USBD_CtrlReceiveData the application makes
\* on its own between two SETUP packets
MaxCalls == 2
\* halt and resume requests the host sends for the endpoints of the NCM
\* interface
MaxHalts == 2

----------------------------------------------------------------------------
(* Names of the buffers handed to the peripheral driver (the data pointer) *)

BufNULL     == "NULL"
BufCtrlData == "CtrlData"
BufCBW      == "CBW"
BufCSW      == "CSW"
BufBuffer   == "Buffer"
BufApp      == "App"
BufNotify   == "Notify"
BufNotifyConnection == "Notify.Connection"

\* Out.Data[page] and In.Data[page] of the NCM interface
BufOut(page) == IF page = 0 THEN "Out.Data[0]" ELSE "Out.Data[1]"

BufIn(page) == IF page = 0 THEN "In.Data[0]" ELSE "In.Data[1]"

RECURSIVE BitAnd(_, _)
\* the C operator & on non-negative integers
BitAnd(a, b) ==
    IF a = 0 \/ b = 0 THEN 0
    ELSE (a % 2) * (b % 2) + 2 * BitAnd(a \div 2, b \div 2)

Min(a, b) == IF a < b THEN a ELSE b

\* uint32_t arithmetic: x modulo 2^32 for x in -2^31 .. 2^31 - 1
\* uint32_t.  The numbers of TLC end at INT32_MAX: a value of 2^31 or more is
\* written as the negative number with the same 32 bits, value - 2^32.  The
\* sum, difference and product of two numbers written this way is the
\* result of the C operator on uint32_t, written this way, so the
\* conversion to uint32_t leaves the number as it is; the comparison and
\* the division take the bits as unsigned.
U32(x) == x

\* a > b on uint32_t
U32Gt(a, b) == IF (a < 0) = (b < 0) THEN a > b ELSE a < 0

\* a / d on uint32_t for a divisor that is a power of two: 2^32 / d is
\* 2 * (INT32_MAX \div d + 1)
U32Div(a, d) ==
    IF a >= 0 THEN a \div d ELSE (a \div d) + 2 * (INT32_MAX \div d + 1)

\* the world with the C return value r
Ret(w, r) == [w EXCEPT !.ret = r]

\* sequencing of statements: the world v after a statement is computed once
\* and handed to the statements that follow, Op
Bind(v, Op(_)) == CHOOSE r \in {Op(y) : y \in {v}} : TRUE

----------------------------------------------------------------------------
(* Endpoint references.  dev.EP is keyed by 128 + n for EP.IN[n] and by n  *)
(* for EP.OUT[n].                                                          *)

EpKeys == (0 .. USBD_MAX_EP_COUNT - 1) \cup (128 .. 128 + USBD_MAX_EP_COUNT - 1)

USBD_EpAddr2Ref(epAddr) ==
    IF epAddr > 127 THEN 128 + BitAnd(epAddr, 15) ELSE epAddr

----------------------------------------------------------------------------
(* Peripheral driver, as far as the stack depends on it.  An endpoint      *)
(* holds one transfer: pd.xfer[e] is <<>> or the one submitted transfer,   *)
(* until the bus completes it; a new submission reprograms the endpoint.   *)
(* The driver writes the transfer length into the endpoint handle.  stage  *)
(* records the endpoint state at submission.  Halting, closing or          *)
(* (re)opening an endpoint discards what was submitted on it.              *)
(* pd.ptr[e] is Transfer.Data of the endpoint handle, the running data     *)
(* pointer of the driver: the buffer and the offset reached in it; the     *)
(* class code finds the start of a completed transfer at                   *)
(* Transfer.Data - Transfer.Length.  obs.sub lists the submissions of the  *)
(* handler that ran last: the endpoint and whether a transfer was still    *)
(* pending on it.                                                          *)

NoteSubmit(w, e) ==
    [w EXCEPT !.obs.sub = Append(@, [ep |-> e, pending |-> w.pd.xfer[e] # <<>>])]

USBD_PD_EpSend(w, addr, data, len) ==
    LET e == USBD_EpAddr2Ref(addr) IN
    [NoteSubmit(w, e)
       EXCEPT !.pd.xfer[e] = <<[data |-> data, len |-> len,
                                stage |-> w.dev.EP[e].State]>>,
              !.pd.ptr[e] = [buf |-> data, off |-> 0],
              !.dev.EP[e].Length = len]

USBD_PD_EpReceive(w, addr, data, len) ==
    LET e == USBD_EpAddr2Ref(addr) IN
    [NoteSubmit(w, e)
       EXCEPT !.pd.xfer[e] = <<[data |-> data, len |-> len,
                                stage |-> w.dev.EP[e].State]>>,
              !.pd.ptr[e] = [buf |-> data, off |-> 0],
              !.dev.EP[e].Length = len]

USBD_PD_EpSetStall(w, addr) ==
    LET e == USBD_EpAddr2Ref(addr) IN
    [w EXCEPT !.pd.halt[e] = TRUE, !.pd.xfer[e] = <<>>]

USBD_PD_EpClearStall(w, addr) ==
    LET e == USBD_EpAddr2Ref(addr) IN
    [w EXCEPT !.pd.halt[e] = FALSE]

USBD_PD_EpOpen(w, addr, type, mps) ==
    LET e == USBD_EpAddr2Ref(addr) IN
    [w EXCEPT !.pd.halt[e] = FALSE, !.pd.xfer[e] = <<>>,
              !.dev.EP[e].Type = type, !.dev.EP[e].MaxPacketSize = mps]

USBD_PD_EpClose(w, addr) ==
    LET e == USBD_EpAddr2Ref(addr) IN
    [w EXCEPT !.pd.halt[e] = FALSE, !.pd.xfer[e] = <<>>]

USBD_PD_CtrlEpOpen(w) ==
    [w EXCEPT !.pd.halt[0] = FALSE, !.pd.halt[128] = FALSE,
              !.pd.xfer[0] = <<>>, !.pd.xfer[128] = <<>>]

USBD_PD_SetAddress(w, addr) ==
    [w EXCEPT !.pd.addr = addr]

----------------------------------------------------------------------------
(* usbd_internal.h: endpoint helpers *)

USBD_EpOpen(w, epAddr, type, mps) ==
    [USBD_PD_EpOpen(w, epAddr, type, mps)
        EXCEPT !.dev.EP[USBD_EpAddr2Ref(epAddr)].State = USB_EP_STATE_IDLE]

\* also notes that closing ends the "just cleared" observation of the endpoint
USBD_EpClose(w, epAddr) ==
    [USBD_PD_EpClose(w, epAddr)
        EXCEPT !.dev.EP[USBD_EpAddr2Ref(epAddr)].State = USB_EP_STATE_CLOSED,
               !.obs.cleared = @ \ {USBD_EpAddr2Ref(epAddr)}]

\* also notes that the halt ends the "just cleared" observation of the endpoint
USBD_EpSetStall(w, epAddr) ==
    [USBD_PD_EpSetStall(w, epAddr)
        EXCEPT !.dev.EP[USBD_EpAddr2Ref(epAddr)].State = USB_EP_STATE_STALL,
               !.obs.cleared = @ \ {USBD_EpAddr2Ref(epAddr)}]

----------------------------------------------------------------------------
(* usbd_ep.c: ep_send / ep_receive.  obs.calls logs the call (endpoint,    *)
(* return value) for the properties; obs.cleared is the set of endpoints   *)
(* whose halt was cleared and on which no transfer was requested since.    *)

\* obs.app lists the callbacks of the application and of the logical unit
\* made by the handler that ran last, with two of their arguments
AppCallback(w, f, a, b) ==
    [w EXCEPT !.obs.app = Append(@, [f |-> f, a |-> a, b |-> b])]

NoteCall(w, e, r) ==
    [w EXCEPT !.ret = r,
              !.obs.lastCall = [ep |-> e, ret |-> r,
                                afterClear |-> e \in w.obs.cleared],
              !.obs.cleared = @ \ {e}]

\* faulty variant of USBD_EpSend: an isochronous endpoint is refused unless
\* it is Idle
USBD_EpSend_NoIso(w, epAddr, data, len) ==
    LET e  == 128 + BitAnd(epAddr, 15)
        ep == w.dev.EP[e]
    IN  IF ep.State = USB_EP_STATE_IDLE
        THEN Bind([w EXCEPT !.dev.EP[e].State = USB_EP_STATE_DATA], LAMBDA w1 :
             Bind(USBD_PD_EpSend(w1, epAddr, data, len), LAMBDA w2 :
             NoteCall(w2, e, USBD_E_OK)))
        ELSE NoteCall(w, e, USBD_E_BUSY)

USBD_EpSend(w, epAddr, data, len) ==
    LET e  == 128 + BitAnd(epAddr, 15)
        ep == w.dev.EP[e]
    IN  IF (ep.State = USB_EP_STATE_IDLE) \/ (ep.Type = USB_EP_TYPE_ISOCHRONOUS)
        THEN Bind([w EXCEPT !.dev.EP[e].State = USB_EP_STATE_DATA], LAMBDA w1 :
             Bind(USBD_PD_EpSend(w1, epAddr, data, len), LAMBDA w2 :
             NoteCall(w2, e, USBD_E_OK)))
        ELSE NoteCall(w, e, USBD_E_BUSY)

USBD_EpReceive(w, epAddr, data, len) ==
    LET e  == epAddr
        ep == w.dev.EP[e]
    IN  IF (ep.State = USB_EP_STATE_IDLE) \/ (ep.Type = USB_EP_TYPE_ISOCHRONOUS)
        THEN Bind([w EXCEPT !.dev.EP[e].State = USB_EP_STATE_DATA], LAMBDA w1 :
             Bind(USBD_PD_EpReceive(w1, epAddr, data, len), LAMBDA w2 :
             NoteCall(w2, e, USBD_E_OK)))
        ELSE NoteCall(w, e, USBD_E_BUSY)

----------------------------------------------------------------------------
(* usbd_ctrl.c: EP0 stages.  obs.ctl observes the control transfer in      *)
(* progress: the setup handler's return value, whether EP0 was stalled,    *)
(* the Status stage (0 not started, 1 started, 2 completed), the length    *)
(* accepted by ctrl_send_data (-1 if none), the data bytes and the         *)
(* terminating zero-length packets that completed on EP0 IN.               *)

CtlNone == [active |-> FALSE, ret |-> USBD_E_INVALID, stalled |-> FALSE,
            status |-> 0, accepted |-> -1, sent |-> 0, zlps |-> 0,
            ds |-> 0, dsAt |-> [status |-> 0, pending |-> FALSE],
            calls |-> 0]

\* faulty variant of USBD_CtrlSendError: only EP0 IN is stalled
USBD_CtrlSendError_InOnly(w) ==
    [USBD_PD_EpSetStall(w, 128)
        EXCEPT !.dev.EP[128].State = USB_EP_STATE_STALL,
               !.obs.ctl.stalled = TRUE]

USBD_CtrlSendError(w) ==
    [USBD_PD_EpSetStall(USBD_PD_EpSetStall(w, 128), 0)
        EXCEPT !.dev.EP[128].State = USB_EP_STATE_STALL,
               !.dev.EP[0].State = USB_EP_STATE_STALL,
               !.obs.ctl.stalled = TRUE]

USBD_CtrlSendStatus(w) ==
    Bind([w EXCEPT !.dev.EP[128].State = USB_EP_STATE_STATUS,
                   !.obs.ctl.status = 1], LAMBDA w1 :
    USBD_PD_EpSend(w1, 128, BufNULL, 0))

USBD_CtrlReceiveStatus(w) ==
    Bind([w EXCEPT !.dev.EP[0].State = USB_EP_STATE_STATUS,
                   !.obs.ctl.status = 1], LAMBDA w1 :
    USBD_PD_EpReceive(w1, 0, BufNULL, 0))

\* faulty variant of USBD_CtrlSendData: the length is not clipped to wLength
USBD_CtrlSendData_NoClip(w, data, len) ==
    IF w.dev.Setup.Direction = USB_DIRECTION_IN
       /\ w.dev.EP[0].State = USB_EP_STATE_SETUP
    THEN Bind([w EXCEPT !.dev.EP[128].State = USB_EP_STATE_DATA,
                        !.obs.ctl.accepted = len], LAMBDA w1 :
         Ret(USBD_PD_EpSend(w1, 128, data, len), USBD_E_OK))
    ELSE Ret(w, USBD_E_ERROR)

\* the contents of dev->CtrlData, where they are followed (obs.buf): by is
\* "dev" for an answer the device has built in the buffer, "host" for the
\* data of the Data stage of the request with wValue blk; CtrlDataOff in a
\* run that does not follow them
CtrlDataOff == [by |-> "off", blk |-> 0]

\* the caller of ctrl_send_data has built its answer in the buffer it
\* passes
NoteCtrlData(w, data) ==
    IF data = BufCtrlData /\ w.obs.buf.by # "off"
    THEN [w EXCEPT !.obs.buf = [by |-> "dev", blk |-> 0]]
    ELSE w

USBD_CtrlSendData(w, data, len) ==
    Bind(NoteCtrlData(w, data), LAMBDA w0 :
    IF w0.dev.Setup.Direction = USB_DIRECTION_IN
       /\ w0.dev.EP[0].State = USB_EP_STATE_SETUP
    THEN LET l == IF w0.dev.Setup.Length < len THEN w0.dev.Setup.Length ELSE len
         IN  Bind([w0 EXCEPT !.dev.EP[128].State = USB_EP_STATE_DATA,
                             !.obs.ctl.accepted = l], LAMBDA w1 :
             Ret(USBD_PD_EpSend(w1, 128, data, l), USBD_E_OK))
    ELSE Ret(w0, USBD_E_ERROR))

USBD_CtrlReceiveData(w, data, len) ==
    IF w.dev.Setup.Direction = USB_DIRECTION_OUT
       /\ w.dev.EP[0].State = USB_EP_STATE_SETUP
    THEN LET l == IF w.dev.Setup.Length < len THEN w.dev.Setup.Length ELSE len
         IN  Bind([w EXCEPT !.dev.EP[0].State = USB_EP_STATE_DATA], LAMBDA w1 :
             Ret(USBD_PD_EpReceive(w1, 0, data, l), USBD_E_OK))
    ELSE Ret(w, USBD_E_ERROR)

----------------------------------------------------------------------------
(* usbd_msc_scsi.c.  A command block is [op, flag, lba, len]: the opcode,  *)
(* the byte 1 flag the handler tests (EVPD, BYTCHK), the logical block     *)
(* address and the transfer or allocation length.  w.io is the result the  *)
(* logical unit's Read / Write returns in this handler run.  obs.bot       *)
(* observes the command in progress: whether the host still waits for its  *)
(* CSW (open), the bytes completed on the bulk data endpoints, the CSWs     *)
(* handed to the peripheral driver and the SCSI commands executed since     *)
(* the last command packet.                                                *)

\* faulty variant of SCSI_PutSenseCode: the sense data is not recorded
SCSI_PutSenseCode_NoKey(w, skey, asc) ==
    [w EXCEPT !.msc.CSW.bStatus = MSC_CSW_CMD_FAILED]

SCSI_PutSenseCode(w, skey, asc) ==
    [w EXCEPT !.msc.Sense = [Key |-> skey, ASC |-> asc],
              !.msc.CSW.bStatus = MSC_CSW_CMD_FAILED]

\* faulty variant of SCSI_ProcessRead: the residue is not reduced
SCSI_ProcessRead_NoResidue(w) ==
    LET len == Min(USBD_MSC_BUFFER_SIZE, w.msc.RemLength) IN
    Bind(AppCallback(w, "Read", U32Div(w.msc.Address, w.lu.BlockSize),
                     len \div w.lu.BlockSize), LAMBDA w0 :
    IF w0.io # USBD_E_OK
    THEN Ret(SCSI_PutSenseCode(w0, SCSI_SKEY_HARDWARE_ERROR,
                               SCSI_ASC_UNRECOVERED_READ_ERROR), w0.io)
    ELSE Bind(USBD_EpSend(w0, w0.msc.Config.InEpNum, BufBuffer, len), LAMBDA w1 :
         Bind([w1 EXCEPT !.msc.Address = U32(@ + len),
                         !.msc.RemLength = U32(@ - len)], LAMBDA w2 :
         Ret(IF w2.msc.RemLength = 0
             THEN [w2 EXCEPT !.msc.State = MSC_STATE_STATUS_IN]
             ELSE w2, USBD_E_OK))))

\* w.io is what LU->Read returns
SCSI_ProcessRead(w) ==
    LET len == Min(USBD_MSC_BUFFER_SIZE, w.msc.RemLength) IN
    Bind(AppCallback(w, "Read", U32Div(w.msc.Address, w.lu.BlockSize),
                     len \div w.lu.BlockSize), LAMBDA w0 :
    IF w0.io # USBD_E_OK
    THEN Ret(SCSI_PutSenseCode(w0, SCSI_SKEY_HARDWARE_ERROR,
                               SCSI_ASC_UNRECOVERED_READ_ERROR), w0.io)
    ELSE Bind(USBD_EpSend(w0, w0.msc.Config.InEpNum, BufBuffer, len), LAMBDA w1 :
         Bind([w1 EXCEPT !.msc.Address = U32(@ + len),
                         !.msc.RemLength = U32(@ - len),
                         !.msc.CSW.dDataResidue = U32(@ - len)], LAMBDA w2 :
         Ret(IF w2.msc.RemLength = 0
             THEN [w2 EXCEPT !.msc.State = MSC_STATE_STATUS_IN]
             ELSE w2, USBD_E_OK))))

\* w.io is what LU->Write returns
SCSI_ProcessWrite(w) ==
    LET len == Min(USBD_MSC_BUFFER_SIZE, w.msc.RemLength) IN
    Bind(AppCallback(w, "Write", U32Div(w.msc.Address, w.lu.BlockSize),
                     len \div w.lu.BlockSize), LAMBDA w0 :
    IF w0.io # USBD_E_OK
    THEN Ret(SCSI_PutSenseCode(w0, SCSI_SKEY_HARDWARE_ERROR,
                               SCSI_ASC_WRITE_FAULT), w0.io)
    ELSE Bind([w0 EXCEPT !.msc.Address = U32(@ + len),
                         !.msc.RemLength = U32(@ - len),
                         !.msc.CSW.dDataResidue = U32(@ - len)], LAMBDA w1 :
         Ret(IF w1.msc.RemLength > 0
             THEN USBD_EpReceive(w1, w1.msc.Config.OutEpNum, BufBuffer, len)
             ELSE w1, USBD_E_OK)))

SCSI_Inquiry(w) ==
    LET allocLen == w.msc.CBW.CB.len
        respLen  == IF w.msc.CBW.CB.flag # 0 THEN 5 ELSE w.lu.AddLength + 4
    IN  Ret(w, IF respLen > allocLen THEN allocLen ELSE respLen)

SCSI_ReadCapacity10(w) ==
    IF ~w.lu.Ready
    THEN Ret(SCSI_PutSenseCode(w, SCSI_SKEY_NOT_READY,
                               SCSI_ASC_MEDIUM_NOT_PRESENT), 0)
    ELSE Ret(w, SizeofCapacity10)

SCSI_ReadFormatCapacity(w) ==
    Ret(w, Min(SizeofFormatCapacity, w.msc.CBW.CB.len))

SCSI_ModeSense6(w) ==
    Ret(w, Min(SizeofModeSense, w.msc.CBW.CB.len))

SCSI_ModeSense10(w) ==
    Ret(w, Min(SizeofModeSense, w.msc.CBW.CB.len))

SCSI_RequestSense(w) ==
    Ret(w, Min(SizeofSenseData, w.msc.CBW.CB.len))

SCSI_StartStopUnit(w) == Ret(w, 0)

SCSI_PreventAllowMediumRemoval(w) == Ret(w, 0)

SCSI_TestUnitReady(w) ==
    IF w.msc.CBW.dDataLength # 0
    THEN Ret(SCSI_PutSenseCode(w, SCSI_SKEY_ILLEGAL_REQUEST,
                               SCSI_ASC_INVALID_CDB), 0)
    ELSE IF ~w.lu.Ready
    THEN Ret(SCSI_PutSenseCode(w, SCSI_SKEY_NOT_READY,
                               SCSI_ASC_MEDIUM_NOT_PRESENT), 0)
    ELSE Ret(w, 0)

SCSI_Verify10(w) ==
    IF w.msc.CBW.CB.flag # 0
    THEN Ret(SCSI_PutSenseCode(w, SCSI_SKEY_ILLEGAL_REQUEST,
                               SCSI_ASC_INVALID_FIELD_IN_COMMAND), 0)
    ELSE IF U32Gt(U32(w.msc.Address + w.msc.RemLength), w.lu.BlockCount)
    THEN Ret(SCSI_PutSenseCode(w, SCSI_SKEY_ILLEGAL_REQUEST,
                               SCSI_ASC_ADDRESS_OUT_OF_RANGE), 0)
    ELSE Ret(w, 0)

SCSI_Read10(w) ==
    LET blockAddr   == w.msc.CBW.CB.lba
        transferLen == w.msc.CBW.CB.len
        dlen        == w.msc.CBW.dDataLength
    IN  IF w.msc.CBW.bmFlags = 0
        THEN Ret(SCSI_PutSenseCode(w, SCSI_SKEY_ILLEGAL_REQUEST,
                                   SCSI_ASC_INVALID_CDB), dlen)
        ELSE IF ~w.lu.Ready
        THEN Ret(SCSI_PutSenseCode(w, SCSI_SKEY_NOT_READY,
                                   SCSI_ASC_MEDIUM_NOT_PRESENT), dlen)
        ELSE IF U32Gt(U32(blockAddr + transferLen), w.lu.BlockCount)
        THEN Ret(SCSI_PutSenseCode(w, SCSI_SKEY_ILLEGAL_REQUEST,
                                   SCSI_ASC_ADDRESS_OUT_OF_RANGE), dlen)
        ELSE Bind([w EXCEPT
                     !.msc.Address   = U32(blockAddr * w.lu.BlockSize),
                     !.msc.RemLength = U32(transferLen * w.lu.BlockSize)],
                  LAMBDA w1 :
             IF dlen # w1.msc.RemLength
             THEN Ret(SCSI_PutSenseCode(w1, SCSI_SKEY_ILLEGAL_REQUEST,
                                        SCSI_ASC_INVALID_CDB), dlen)
             ELSE Bind([w1 EXCEPT !.msc.State = MSC_STATE_DATA_IN], LAMBDA w2 :
                  Ret(SCSI_ProcessRead(w2), dlen)))

SCSI_Write10(w) ==
    LET blockAddr   == w.msc.CBW.CB.lba
        transferLen == w.msc.CBW.CB.len
        respLen     == USBD_MSC_BUFFER_SIZE
    IN  IF w.msc.CBW.bmFlags # 0
        THEN Ret(SCSI_PutSenseCode(w, SCSI_SKEY_ILLEGAL_REQUEST,
                                   SCSI_ASC_INVALID_CDB), respLen)
        ELSE IF ~w.lu.Ready
        THEN Ret(SCSI_PutSenseCode(w, SCSI_SKEY_NOT_READY,
                                   SCSI_ASC_MEDIUM_NOT_PRESENT), respLen)
        ELSE IF ~w.lu.Writable
        THEN Ret(SCSI_PutSenseCode(w, SCSI_SKEY_NOT_READY,
                                   SCSI_ASC_WRITE_PROTECTED), respLen)
        ELSE IF U32Gt(U32(blockAddr + transferLen), w.lu.BlockCount)
        THEN Ret(SCSI_PutSenseCode(w, SCSI_SKEY_ILLEGAL_REQUEST,
                                   SCSI_ASC_ADDRESS_OUT_OF_RANGE), respLen)
        ELSE Bind([w EXCEPT
                     !.msc.Address   = U32(blockAddr * w.lu.BlockSize),
                     !.msc.RemLength = U32(transferLen * w.lu.BlockSize)],
                  LAMBDA w1 :
             IF w1.msc.CBW.dDataLength # w1.msc.RemLength
             THEN Ret(SCSI_PutSenseCode(w1, SCSI_SKEY_ILLEGAL_REQUEST,
                                        SCSI_ASC_INVALID_CDB), respLen)
             ELSE Bind([w1 EXCEPT !.msc.State = MSC_STATE_DATA_OUT], LAMBDA w2 :
                  Ret(USBD_EpReceive(w2, w2.msc.Config.OutEpNum, BufBuffer,
                                     Min(respLen, w2.msc.RemLength)),
                      Min(respLen, w2.msc.RemLength))))

SCSI_Dispatch(w) ==
    LET op == w.msc.CBW.CB.op
    IN  CASE op = SCSI_READ10   -> SCSI_Read10(w)
          [] op = SCSI_WRITE10  -> SCSI_Write10(w)
          [] op = SCSI_VERIFY10 -> SCSI_Verify10(w)
          [] op = SCSI_INQUIRY  -> SCSI_Inquiry(w)
          [] op = SCSI_READ_FORMAT_CAPACITIES -> SCSI_ReadFormatCapacity(w)
          [] op = SCSI_TEST_UNIT_READY -> SCSI_TestUnitReady(w)
          [] op = SCSI_REQUEST_SENSE   -> SCSI_RequestSense(w)
          [] op = SCSI_START_STOP_UNIT -> SCSI_StartStopUnit(w)
          [] op = SCSI_PREVENT_ALLOW_MEDIUM_REMOVAL
                                -> SCSI_PreventAllowMediumRemoval(w)
          [] op = SCSI_MODE_SENSE6  -> SCSI_ModeSense6(w)
          [] op = SCSI_MODE_SENSE10 -> SCSI_ModeSense10(w)
          [] op = SCSI_READ_CAPACITY10 -> SCSI_ReadCapacity10(w)
          [] OTHER -> Ret(SCSI_PutSenseCode(w, SCSI_SKEY_ILLEGAL_REQUEST,
                                            SCSI_ASC_INVALID_CDB), 0)

SCSI_ProcessCommand(w) ==
    Bind([w EXCEPT !.obs.bot.scsi = 1], LAMBDA w0 :
    Bind(SCSI_Dispatch(w0), LAMBDA w1 :
    LET respLen == Min(w1.ret, w1.msc.CBW.dDataLength)
    IN  IF w1.msc.CSW.bStatus = MSC_CSW_CMD_PASSED
           /\ w1.msc.State = MSC_STATE_COMMAND_OUT /\ respLen > 0
        THEN [USBD_EpSend(w1, w1.msc.Config.InEpNum, BufBuffer, respLen)
                 EXCEPT !.msc.CSW.dDataResidue = U32(@ - respLen),
                        !.msc.State = MSC_STATE_STATUS_IN]
        ELSE w1))

----------------------------------------------------------------------------
(* usbd_msc.c: Bulk-Only Transport *)

\* received-packet validity test of msc_outData, ep is the completed endpoint
MSC_CbwValid(w, e) ==
    /\ w.dev.EP[e].Length = SizeofCBW
    /\ w.msc.CBW.sig
    /\ w.msc.CBW.bLUN <= w.msc.Config.MaxLUN
    /\ w.msc.CBW.bCBLength > 0
    /\ w.msc.CBW.bCBLength <= SizeofCB

msc_receiveCBW(w) ==
    Bind([w EXCEPT !.msc.State = MSC_STATE_COMMAND_OUT], LAMBDA w1 :
    USBD_EpReceive(w1, w1.msc.Config.OutEpNum, BufCBW, SizeofCBW))

\* faulty variant of msc_sendCSW: the next CBW reception is not armed
msc_sendCSW_NoReceive(w) ==
    Bind(USBD_EpSend(w, w.msc.Config.InEpNum, BufCSW, SizeofCSW), LAMBDA w1 :
    IF w1.ret = USBD_E_OK
    THEN [w1 EXCEPT !.obs.bot.csws = Min(@ + 1, 2)]
    ELSE w1)

msc_sendCSW(w) ==
    Bind(USBD_EpSend(w, w.msc.Config.InEpNum, BufCSW, SizeofCSW), LAMBDA w1 :
    Bind(IF w1.ret = USBD_E_OK
         THEN [w1 EXCEPT !.obs.bot.csws = Min(@ + 1, 2)]
         ELSE w1, LAMBDA w2 :
    msc_receiveCBW(w2)))

msc_init(w) ==
    Bind(USBD_EpOpen(w, w.msc.Config.InEpNum, USB_EP_TYPE_BULK,
                     USB_EP_BULK_FS_MPS), LAMBDA w1 :
    Bind(USBD_EpOpen(w1, w1.msc.Config.OutEpNum, USB_EP_TYPE_BULK,
                     USB_EP_BULK_FS_MPS), LAMBDA w2 :
    Bind([w2 EXCEPT !.msc.Status = MSC_STATUS_NORMAL], LAMBDA w3 :
    msc_receiveCBW(w3))))

msc_deinit(w) ==
    Bind(USBD_EpClose(w, w.msc.Config.InEpNum), LAMBDA w1 :
    USBD_EpClose(w1, w1.msc.Config.OutEpNum))

msc_setupStage(w) ==
    IF w.dev.Setup.Type = USB_REQ_TYPE_CLASS
    THEN CASE w.dev.Setup.Request = MSC_BOT_GET_MAX_LUN
                -> USBD_CtrlSendData(w, BufCtrlData, 1)
           [] w.dev.Setup.Request = MSC_BOT_RESET
                -> Ret([w EXCEPT !.msc.Status = MSC_STATUS_RECOVERY], USBD_E_OK)
           [] OTHER -> Ret(w, USBD_E_INVALID)
    ELSE Ret(w, USBD_E_INVALID)

msc_inData(w, e) ==
    CASE w.msc.State = MSC_STATE_DATA_IN ->
            Bind(SCSI_ProcessRead(w), LAMBDA w1 :
            IF w1.msc.CSW.bStatus # MSC_CSW_CMD_PASSED
            THEN USBD_EpSetStall([w1 EXCEPT !.msc.State = MSC_STATE_STALL],
                                 w1.msc.Config.InEpNum)
            ELSE w1)
      [] w.msc.State \in {MSC_STATE_STATUS_IN, MSC_STATE_STALL} ->
            IF w.msc.Status = MSC_STATUS_NORMAL THEN msc_sendCSW(w) ELSE w
      [] OTHER -> w

msc_outData(w, e) ==
    CASE w.msc.State = MSC_STATE_COMMAND_OUT ->
            Bind([w EXCEPT !.msc.CSW.dTag = w.msc.CBW.dTag,
                           !.msc.CSW.dDataResidue = w.msc.CBW.dDataLength,
                           !.msc.CSW.bStatus = MSC_CSW_CMD_PASSED], LAMBDA w1 :
            IF MSC_CbwValid(w1, e)
            THEN Bind(SCSI_ProcessCommand(w1), LAMBDA w2 :
                 IF w2.msc.CBW.dDataLength = 0
                 THEN msc_sendCSW(w2)
                 ELSE IF w2.msc.CSW.bStatus # MSC_CSW_CMD_PASSED
                 THEN USBD_EpSetStall(
                        [w2 EXCEPT !.msc.State = MSC_STATE_STALL],
                        IF w2.msc.CBW.bmFlags = 0
                        THEN w2.msc.Config.OutEpNum
                        ELSE w2.msc.Config.InEpNum)
                 ELSE w2)
            ELSE Bind(SCSI_PutSenseCode(w1, SCSI_SKEY_ILLEGAL_REQUEST,
                                        SCSI_ASC_INVALID_CDB), LAMBDA w2 :
                 Bind([w2 EXCEPT !.msc.State  = MSC_STATE_STALL,
                                 !.msc.Status = MSC_STATUS_ERROR], LAMBDA w3 :
                 USBD_EpSetStall(
                    USBD_EpSetStall(w3, w3.msc.Config.OutEpNum),
                    w3.msc.Config.InEpNum))))
      [] w.msc.State = MSC_STATE_DATA_OUT ->
            Bind(SCSI_ProcessWrite(w), LAMBDA w1 :
            IF w1.msc.CSW.bStatus # MSC_CSW_CMD_PASSED
            THEN USBD_EpSetStall([w1 EXCEPT !.msc.State = MSC_STATE_STALL],
                                 w1.msc.Config.OutEpNum)
            ELSE IF w1.msc.CSW.dDataResidue = 0
            THEN msc_sendCSW(w1)
            ELSE w1)
      [] OTHER ->
            IF w.msc.Status = MSC_STATUS_NORMAL
            THEN msc_sendCSW(w)
            ELSE IF w.msc.Status = MSC_STATUS_RECOVERY
            THEN [msc_receiveCBW(w) EXCEPT !.msc.Status = MSC_STATUS_NORMAL]
            ELSE w

----------------------------------------------------------------------------
(* usbd_ncm.c: CDC Network Control Model.  The interface takes two         *)
(* interface slots and owns bulk OUT 0x01, bulk IN 0x81 and the interrupt  *)
(* IN notification endpoint 0x82.  ncm.Connection is                       *)
(* Notify.Connection.Value.                                                *)
(*                                                                         *)
(* Memory of a receive page, Out.Data[page]: the NTH16 fields and the      *)
(* NDP16 tables found in it, each at its byte offset, with its datagram    *)
(* entries up to and including the terminating entry; id is the serial     *)
(* number the host gave the block.  Bytes that hold no table read as a     *)
(* table without signature.  Memory of a transmit page, In.Data[page]:     *)
(* the NTH16 fields (Sequence apart), the NDP16 table assembled last, the  *)
(* list of datagram lengths kept backwards from the end of the page (dp,   *)
(* first slot first) and the payloads the application wrote (pay).         *)
(*                                                                         *)
(* obs.net observes the interface: cb, the Received callback ran in the    *)
(* handler that ran last; got, what the last call of get_datagram          *)
(* returned; exp, the datagrams of the valid blocks the host sent that the *)
(* application has not seen, in the order sent; bad, get_datagram returned *)
(* something else than the first of exp; pend, the datagram allocated and  *)
(* not committed; com, the datagrams committed since the last send_ntb;    *)
(* hit, NDP or datagram data was written into a page in flight; drop, the  *)
(* blocks of the host that fail the verification; rx, the block received   *)
(* last;                                                                   *)
(* ntb, the block send_ntb assembled last.                                 *)

DgNone == [Index |-> 0, Length |-> 0]

NdpNone == [at |-> 0, Signature |-> FALSE, Length |-> 0, NextNdpIndex |-> 0,
            Datagram |-> <<>>]

NthNone == [Signature |-> FALSE, HeaderLength |-> 0, BlockLength |-> 0,
            NdpIndex |-> 0]

NtbNone == [id |-> 0, Signature |-> FALSE, HeaderLength |-> 0,
            BlockLength |-> 0, NdpIndex |-> 0, Ndp |-> <<>>]

NullPtr == [buf |-> BufNULL, off |-> 0]

GotNone == [id |-> 0, Index |-> 0, Length |-> 0, null |-> TRUE]

SentNone == [page |-> 0, ret |-> USBD_E_OK, len |-> 0, com |-> <<>>,
             nth |-> NthNone, pt |-> NdpNone, any |-> FALSE]

NetNone == [cb |-> FALSE, got |-> GotNone, exp |-> <<>>, bad |-> FALSE,
            nsent |-> 0, rx |-> [id |-> 0, page |-> 0, ok |-> TRUE],
            drop |-> {}, hit |-> FALSE, nhalt |-> 0, pend |-> <<>>, com |-> <<>>, ntb |-> SentNone, ndg |-> 0]

\* a write of NDP or datagram data into a transmit page: obs.net.hit notes
\* that the page was handed to the peripheral driver and its transfer has
\* not completed
NoteWrite(w, page) ==
    LET e == USBD_EpAddr2Ref(w.ncm.Config.InEpNum) IN
    IF w.pd.xfer[e] # <<>> /\ w.pd.xfer[e][1].data = BufIn(page)
    THEN [w EXCEPT !.obs.net.hit = TRUE]
    ELSE w

\* (x + 3) & (~3)
RoundUp4(x) == ((x + 3) \div 4) * 4

\* the first interface slot that holds the handle mounted at slot ifNum
ItfSlot(w, ifNum) ==
    CHOOSE n \in 0 .. ifNum :
      /\ w.dev.If[n] = w.dev.If[ifNum]
      /\ \A m \in 0 .. n - 1 : w.dev.If[m] # w.dev.If[ifNum]

\* itf->Base.AltSelector of the NCM interface
ncm_AltSelector(w) ==
    w.dev.AltSelector[CHOOSE n \in 0 .. USBD_MAX_IF_COUNT - 1 :
                        /\ w.dev.If[n] = "NCM"
                        /\ \A m \in 0 .. n - 1 : w.dev.If[m] # "NCM"]

\* the NDP16 table at byte offset ndpIndex of a block
NdpAt(nth, ndpIndex) ==
    IF \E i \in 1 .. Len(nth.Ndp) : nth.Ndp[i].at = ndpIndex
    THEN nth.Ndp[CHOOSE i \in 1 .. Len(nth.Ndp) : nth.Ndp[i].at = ndpIndex]
    ELSE NdpNone

\* pt->V16.Datagram[dx]
DatagramAt(pt, dx) ==
    IF dx + 1 <= Len(pt.Datagram) THEN pt.Datagram[dx + 1] ELSE DgNone

\* what is read through a pointer into the receive pages
OutMemory(w, ptr) ==
    IF ptr = [buf |-> BufOut(0), off |-> 0] THEN w.ncm.Out.Data[0]
    ELSE IF ptr = [buf |-> BufOut(1), off |-> 0]
            \/ ptr = [buf |-> BufOut(0), off |-> USBD_NCM_MAX_OUT_SIZE]
    THEN w.ncm.Out.Data[1]
    ELSE NtbNone

RECURSIVE ncm_verifyTables_NoSignature(_, _)
\* faulty variant of ncm_verifyTables: the NDP16 signature is not compared
ncm_verifyTables_NoSignature(nth, ndpIndex) ==
    LET pt == NdpAt(nth, ndpIndex) IN
    IF /\ ndpIndex >= SizeofNTH16
       /\ ndpIndex < nth.BlockLength
       /\ pt.Length > SizeofNDP16
    THEN IF pt.NextNdpIndex = 0 THEN TRUE
         ELSE ncm_verifyTables_NoSignature(nth, pt.NextNdpIndex)
    ELSE FALSE

RECURSIVE ncm_verifyTables(_, _)
\* the while loop of ncm_outData: TRUE when it reaches the last NDP
ncm_verifyTables(nth, ndpIndex) ==
    LET pt == NdpAt(nth, ndpIndex) IN
    IF /\ ndpIndex >= SizeofNTH16
       /\ ndpIndex < nth.BlockLength
       /\ pt.Signature
       /\ pt.Length > SizeofNDP16
    THEN IF pt.NextNdpIndex = 0 THEN TRUE
         ELSE ncm_verifyTables(nth, pt.NextNdpIndex)
    ELSE FALSE

ncm_init(w) ==
    IF ncm_AltSelector(w) = 1
    THEN USBD_EpOpen(w, w.ncm.Config.NotEpNum, USB_EP_TYPE_INTERRUPT,
                     NCM_NOT_PACKET_SIZE)
    ELSE [w EXCEPT !.ncm.In.MaxSize = USBD_NCM_MAX_IN_SIZE]

ncm_deinit(w) ==
    Bind([w EXCEPT !.ncm.Connection = 0], LAMBDA w1 :
    IF ncm_AltSelector(w1) = 1
    THEN Bind(USBD_EpClose(w1, w1.ncm.Config.InEpNum), LAMBDA w2 :
         Bind(USBD_EpClose(w2, w2.ncm.Config.OutEpNum), LAMBDA w3 :
         USBD_EpClose(w3, w3.ncm.Config.NotEpNum)))
    ELSE w1)

ncm_setupStage(w) ==
    IF w.dev.Setup.Type = USB_REQ_TYPE_CLASS
    THEN CASE w.dev.Setup.Request = CDC_REQ_GET_NTB_PARAMETERS ->
                USBD_CtrlSendData(w, BufCtrlData, SizeofNcmParameters)
           [] w.dev.Setup.Request = CDC_REQ_GET_NTB_INPUT_SIZE ->
                USBD_CtrlSendData(w, BufCtrlData, SizeofNtbInputSize)
           [] w.dev.Setup.Request = CDC_REQ_SET_NTB_INPUT_SIZE ->
                USBD_CtrlReceiveData(w, BufCtrlData, SizeofNtbInputSize)
           [] OTHER -> Ret(w, USBD_E_INVALID)
    ELSE Ret(w, USBD_E_INVALID)

\* w.io is insize->size, the value received in CtrlData
ncm_dataStage(w) ==
    IF /\ w.dev.Setup.Direction = USB_DIRECTION_OUT
       /\ w.dev.Setup.Request = CDC_REQ_SET_NTB_INPUT_SIZE
       /\ w.io > SizeofNTH16 + SizeofNDP16
    THEN [w EXCEPT !.ncm.In.MaxSize = w.io]
    ELSE w

ncm_outData(w, e) ==
    LET len    == w.dev.EP[e].Length
        at     == [buf |-> w.pd.ptr[e].buf, off |-> w.pd.ptr[e].off - len]
        nth    == OutMemory(w, at)
        rxPage == IF at = [buf |-> BufOut(0), off |-> 0] THEN 0 ELSE 1
        ready  == /\ nth.BlockLength = len
                  /\ nth.HeaderLength = SizeofNTH16
                  /\ nth.Signature
                  /\ ncm_verifyTables(nth, nth.NdpIndex)
        page   == IF ready THEN 1 - rxPage ELSE rxPage
    IN  Bind([w EXCEPT !.ncm.Out.State[rxPage] = NTB_EMPTY], LAMBDA w1 :
        Bind(IF ready
             THEN IF w1.ncm.Out.State[page] = NTB_EMPTY
                  THEN [w1 EXCEPT !.ncm.Out.State[rxPage] = NTB_READY,
                                  !.ncm.Out.Page = rxPage,
                                  !.ncm.Out.PT = [page |-> rxPage,
                                                  at |-> nth.NdpIndex],
                                  !.ncm.Out.Dx = 0]
                  ELSE [w1 EXCEPT !.ncm.Out.State[rxPage] = NTB_READY]
             ELSE w1, LAMBDA w2 :
        Bind(IF w2.ncm.Out.State[page] = NTB_EMPTY /\ w2.ncm.Connection # 0
             THEN [USBD_EpReceive(w2, w2.ncm.Config.OutEpNum, BufOut(page),
                                  USBD_NCM_MAX_OUT_SIZE)
                     EXCEPT !.ncm.Out.State[page] = NTB_TRANSFERRING]
             ELSE w2, LAMBDA w3 :
        IF w3.ncm.Out.State[rxPage] = NTB_READY
        THEN [w3 EXCEPT !.obs.net.cb = TRUE]
        ELSE w3)))

\* the datagram lengths of the first n slots of the backwards list
DpLength(dp, i) == IF i <= Len(dp) THEN dp[i] ELSE 0

RECURSIVE ncm_sendNTB_Table(_, _, _)
\* the two for loops of ncm_sendNTB: entry i + 1 .. n of the datagram table,
\* entry i starting at byte index
ncm_sendNTB_Table(dp, i, index) ==
    LET n == Len(dp) IN
    IF i > n THEN <<>>
    ELSE <<[Index |-> index, Length |-> dp[i]]>>
         \o ncm_sendNTB_Table(dp, i + 1, RoundUp4(index + dp[i]))

ncm_sendNTB(w, page) ==
    LET in     == w.ncm.In
        count  == in.DgCount
        dp     == [i \in 1 .. count |-> DpLength(in.Data[page].dp, i)]
        table  == IF count = 0 THEN <<[Index |-> SizeofNTH16, Length |-> 0]>>
                  ELSE ncm_sendNTB_Table(dp, 1, SizeofNTH16)
        pt     == [at |-> in.Index, Signature |-> TRUE,
                   Length |-> SizeofNDP16 + count * SizeofDatagram16,
                   NextNdpIndex |-> 0,
                   Datagram |-> Append(table, DgNone)]
        nth    == [Signature |-> TRUE, HeaderLength |-> SizeofNTH16,
                   BlockLength |-> SizeofNTH16 + in.Index + pt.Length,
                   NdpIndex |-> in.Index]
    IN  Bind([NoteWrite(w, page) EXCEPT !.ncm.In.Data[page].pt = pt,
                                        !.ncm.In.Data[page].nth = nth],
             LAMBDA w1 :
        Bind(USBD_EpSend(w1, w1.ncm.Config.InEpNum, BufIn(page),
                         nth.BlockLength), LAMBDA w2 :
        [w2 EXCEPT !.ncm.In.Page = 1 - page,
                   !.ncm.In.DgCount = 0,
                   !.ncm.In.Index = SizeofNTH16,
                   !.ncm.In.RemSize = in.MaxSize - SizeofNTH16 - SizeofNDP16,
                   !.ncm.In.FillState = NTB_EMPTY,
                   !.ncm.In.SendState = NTB_TRANSFERRING,
                   !.ncm.In.Data[page].Sequence = (@ + 2) % 65536,
                   !.obs.net.ntb = [page |-> page, ret |-> w2.ret,
                                    len |-> nth.BlockLength,
                                    com |-> w.obs.net.com,
                                    nth |-> nth, pt |-> pt,
                                    any |-> TRUE],
                   !.obs.net.com = <<>>]))

ncm_inData(w, e) ==
    Bind([w EXCEPT !.ncm.In.SendState = NTB_EMPTY], LAMBDA w1 :
    IF w1.ncm.In.FillState = NTB_READY
    THEN LET nth  == [buf |-> w1.pd.ptr[e].buf,
                      off |-> w1.pd.ptr[e].off - w1.dev.EP[e].Length]
             page == IF nth = [buf |-> BufIn(0), off |-> 0] THEN 1 ELSE 0
         IN  ncm_sendNTB(w1, page)
    ELSE w1)

USBD_NCM_Connect(w) ==
    IF ncm_AltSelector(w) = 1 /\ w.ncm.Connection = 0
    THEN Bind(USBD_EpOpen(w, w.ncm.Config.InEpNum, USB_EP_TYPE_BULK,
                          USB_EP_BULK_FS_MPS), LAMBDA w1 :
         Bind(USBD_EpOpen(w1, w1.ncm.Config.OutEpNum, USB_EP_TYPE_BULK,
                          USB_EP_BULK_FS_MPS), LAMBDA w2 :
         Bind([w2 EXCEPT !.ncm.In.Data[0].Sequence = 0,
                         !.ncm.In.Data[1].Sequence = 1,
                         !.ncm.In.FillState = NTB_EMPTY,
                         !.ncm.In.SendState = NTB_READY,
                         !.ncm.In.Page = 0,
                         !.ncm.In.DgCount = 0,
                         !.ncm.In.Index = SizeofNTH16,
                         !.ncm.In.RemSize = w2.ncm.In.MaxSize - SizeofNTH16
                                            - SizeofNDP16,
                         !.ncm.Out.State = [p \in {0, 1} |-> NTB_EMPTY],
                         !.ncm.Out.Page = 0], LAMBDA w3 :
         Bind(USBD_EpReceive(w3, w3.ncm.Config.OutEpNum, BufOut(1),
                             USBD_NCM_MAX_OUT_SIZE), LAMBDA w4 :
         Bind([w4 EXCEPT !.ncm.Connection = 1], LAMBDA w5 :
         USBD_EpSend(w5, w5.ncm.Config.NotEpNum, BufNotify, SizeofNotify))))))
    ELSE Ret(w, USBD_E_INVALID)

USBD_NCM_Disconnect(w) ==
    IF ncm_AltSelector(w) = 1 /\ w.ncm.Connection # 0
    THEN Bind([w EXCEPT !.ncm.Connection = 0,
                        !.ncm.In.FillState = NTB_EMPTY], LAMBDA w1 :
         Bind(USBD_EpClose(w1, w1.ncm.Config.InEpNum), LAMBDA w2 :
         Bind(USBD_EpClose(w2, w2.ncm.Config.OutEpNum), LAMBDA w3 :
         USBD_EpSend(w3, w3.ncm.Config.NotEpNum, BufNotifyConnection,
                     SizeofNotifyHeader))))
    ELSE Ret(w, USBD_E_INVALID)

\* the datagram get_datagram returns, noted in obs.net.got
ncm_GetResult(w) ==
    LET o  == w.ncm.Out
        pt == NdpAt(OutMemory(w, [buf |-> BufOut(o.PT.page), off |-> 0]),
                    o.PT.at)
        dg == DatagramAt(pt, o.Dx)
    IN  IF o.State[o.Page] = NTB_PROCESSING
        THEN [id |-> o.Data[o.Page].id, Index |-> dg.Index,
              Length |-> dg.Length, null |-> FALSE]
        ELSE GotNone

\* faulty variant of USBD_NCM_GetDatagram: the switch to the other block
\* keeps the datagram index of the block just finished
USBD_NCM_GetDatagram_NoRewind(w) ==
    LET o    == w.ncm.Out
        page == o.Page
        pt   == NdpAt(OutMemory(w, [buf |-> BufOut(o.PT.page), off |-> 0]),
                      o.PT.at)
    IN  Bind(IF o.State[page] = NTB_READY
             THEN [w EXCEPT !.ncm.Out.State[page] = NTB_PROCESSING]
             ELSE Bind(IF o.State[page] = NTB_PROCESSING
                       THEN IF DatagramAt(pt, o.Dx + 1).Index # 0
                            THEN [w EXCEPT !.ncm.Out.Dx = (@ + 1) % 256]
                            ELSE IF pt.NextNdpIndex # 0
                            THEN [w EXCEPT !.ncm.Out.PT =
                                             [page |-> page,
                                              at |-> pt.NextNdpIndex],
                                           !.ncm.Out.Dx = 0]
                            ELSE [w EXCEPT !.ncm.Out.State[page] = NTB_EMPTY]
                       ELSE w, LAMBDA w1 :
                  IF /\ w1.ncm.Out.State[page] = NTB_EMPTY
                     /\ w1.ncm.Out.State[1 - page] = NTB_READY
                  THEN Bind([w1 EXCEPT
                               !.ncm.Out.Page = 1 - page,
                               !.ncm.Out.State[1 - page] = NTB_PROCESSING,
                               !.ncm.Out.PT =
                                  [page |-> 1 - page,
                                   at |-> w1.ncm.Out.Data[1 - page].NdpIndex]],
                             LAMBDA w2 :
                       IF w2.ncm.Connection # 0
                       THEN [USBD_EpReceive(w2, w2.ncm.Config.OutEpNum,
                                            BufOut(page), USBD_NCM_MAX_OUT_SIZE)
                               EXCEPT !.ncm.Out.State[page] = NTB_TRANSFERRING]
                       ELSE w2)
                  ELSE w1), LAMBDA w3 :
        [w3 EXCEPT !.obs.net.got = ncm_GetResult(w3)])

USBD_NCM_GetDatagram(w) ==
    LET o    == w.ncm.Out
        page == o.Page
        pt   == NdpAt(OutMemory(w, [buf |-> BufOut(o.PT.page), off |-> 0]),
                      o.PT.at)
    IN  Bind(IF o.State[page] = NTB_READY
             THEN [w EXCEPT !.ncm.Out.State[page] = NTB_PROCESSING]
             ELSE Bind(IF o.State[page] = NTB_PROCESSING
                       THEN IF DatagramAt(pt, o.Dx + 1).Index # 0
                            THEN [w EXCEPT !.ncm.Out.Dx = (@ + 1) % 256]
                            ELSE IF pt.NextNdpIndex # 0
                            THEN [w EXCEPT !.ncm.Out.PT =
                                             [page |-> page,
                                              at |-> pt.NextNdpIndex],
                                           !.ncm.Out.Dx = 0]
                            ELSE [w EXCEPT !.ncm.Out.State[page] = NTB_EMPTY]
                       ELSE w, LAMBDA w1 :
                  IF /\ w1.ncm.Out.State[page] = NTB_EMPTY
                     /\ w1.ncm.Out.State[1 - page] = NTB_READY
                  THEN Bind([w1 EXCEPT
                               !.ncm.Out.Page = 1 - page,
                               !.ncm.Out.State[1 - page] = NTB_PROCESSING,
                               !.ncm.Out.PT =
                                  [page |-> 1 - page,
                                   at |-> w1.ncm.Out.Data[1 - page].NdpIndex],
                               !.ncm.Out.Dx = 0], LAMBDA w2 :
                       IF w2.ncm.Connection # 0
                       THEN [USBD_EpReceive(w2, w2.ncm.Config.OutEpNum,
                                            BufOut(page), USBD_NCM_MAX_OUT_SIZE)
                               EXCEPT !.ncm.Out.State[page] = NTB_TRANSFERRING]
                       ELSE w2)
                  ELSE w1), LAMBDA w3 :
        [w3 EXCEPT !.obs.net.got = ncm_GetResult(w3)])

\* w.data is the pointer the call returns
USBD_NCM_AllocDatagram(w, length) ==
    LET in == w.ncm.In IN
    IF /\ w.ncm.Connection # 0
       /\ length <= NCM_MAX_SEGMENT_SIZE
       /\ in.FillState # NTB_PROCESSING
    THEN LET wlen   == RoundUp4(length)
             addlen == wlen + SizeofDatagram16
             page   == in.Page
             slot   == (in.DgCount + 1) % 256
             dp     == in.Data[page].dp
         IN  IF addlen <= in.RemSize
             THEN [NoteWrite(w, page) EXCEPT
                            !.ncm.In.FillState = NTB_PROCESSING,
                            !.ncm.In.DgCount = slot,
                            !.ncm.In.Data[page].dp =
                               IF slot <= Len(dp) THEN [dp EXCEPT ![slot] = length]
                               ELSE Append(dp, length),
                            !.ncm.In.Index = in.Index + wlen,
                            !.ncm.In.RemSize = in.RemSize - addlen,
                            !.data = [buf |-> BufIn(page), off |-> in.Index]]
             ELSE [w EXCEPT !.ncm.In.FillState = NTB_PROCESSING,
                            !.data = NullPtr]
    ELSE [w EXCEPT !.data = NullPtr]

\* the application (or put_datagram) copies the datagram to the pointer
\* alloc_datagram returned
ncm_memcpy(w, dst, length) ==
    LET page == IF dst.buf = BufIn(0) THEN 0 ELSE 1
        dg   == [Index |-> dst.off, Length |-> length]
    IN  [NoteWrite(w, page) EXCEPT
                  !.ncm.In.Data[page].pay =
                     IF dst.off = SizeofNTH16 THEN <<dg>> ELSE Append(@, dg),
                  !.obs.net.pend = <<[page |-> page, Index |-> dst.off,
                                      Length |-> length]>>]

USBD_NCM_SetDatagram(w) ==
    IF w.ncm.In.FillState = NTB_PROCESSING
    THEN Bind([w EXCEPT !.obs.net.com = @ \o w.obs.net.pend,
                        !.obs.net.pend = <<>>], LAMBDA w1 :
         Ret(IF w1.ncm.In.SendState # NTB_EMPTY
             THEN [w1 EXCEPT !.ncm.In.FillState = NTB_READY]
             ELSE ncm_sendNTB(w1, w1.ncm.In.Page), USBD_E_OK))
    ELSE Ret(w, USBD_E_INVALID)

USBD_NCM_PutDatagram(w, length) ==
    Bind(USBD_NCM_AllocDatagram(w, length), LAMBDA w1 :
    IF w1.data # NullPtr
    THEN USBD_NCM_SetDatagram(ncm_memcpy(w1, w1.data, length))
    ELSE Ret(w1, USBD_E_INVALID))

----------------------------------------------------------------------------
(* usbd_cdc.c: the CDC-ACM interface, built without notification endpoint, *)
(* control line and break support.  cdc.LineCoding.DataBits is the last    *)
(* field of the line coding that the host writes with SET_LINE_CODING; it  *)
(* is zero while the data interface is closed.  obs.app lists the          *)
(* application callbacks made by the handler that ran last.                *)

CDC_REQ_SET_LINE_CODING        == 32
CDC_REQ_GET_LINE_CODING        == 33
CDC_REQ_SET_CONTROL_LINE_STATE == 34
SizeofLineCoding               == 7

BufLineCoding == "LineCoding"

cdc_init(w) ==
    Bind(USBD_EpOpen(w, w.cdc.Config.InEpNum, USB_EP_TYPE_BULK,
                     USB_EP_BULK_FS_MPS), LAMBDA w1 :
    Bind(USBD_EpOpen(w1, w1.cdc.Config.OutEpNum, USB_EP_TYPE_BULK,
                     USB_EP_BULK_FS_MPS), LAMBDA w2 :
    AppCallback(w2, "Open", NullPtr, w2.cdc.LineCoding.DataBits)))

cdc_deinit(w) ==
    IF w.cdc.LineCoding.DataBits # 0
    THEN Bind(USBD_EpClose(w, w.cdc.Config.InEpNum), LAMBDA w1 :
         Bind(USBD_EpClose(w1, w1.cdc.Config.OutEpNum), LAMBDA w2 :
         [AppCallback(w2, "Close", NullPtr, 0)
            EXCEPT !.cdc.LineCoding.DataBits = 0]))
    ELSE w

cdc_setupStage(w) ==
    IF w.dev.Setup.Type = USB_REQ_TYPE_CLASS
    THEN CASE w.dev.Setup.Request = CDC_REQ_SET_LINE_CODING ->
                USBD_CtrlReceiveData(cdc_deinit(w), BufLineCoding,
                                     SizeofLineCoding)
           [] w.dev.Setup.Request = CDC_REQ_GET_LINE_CODING ->
                USBD_CtrlSendData(w, BufLineCoding, SizeofLineCoding)
           [] w.dev.Setup.Request = CDC_REQ_SET_CONTROL_LINE_STATE ->
                Ret(w, USBD_E_OK)
           [] OTHER -> Ret(w, USBD_E_INVALID)
    ELSE Ret(w, USBD_E_INVALID)

\* the OUT Data stage that ends here was received into LineCoding: w.io is
\* the DataBits field it carried
cdc_dataStage(w) ==
    Bind(IF /\ w.pd.ptr[0].buf = BufLineCoding
            /\ w.dev.Setup.Direction = USB_DIRECTION_OUT
            /\ w.dev.EP[0].Length = SizeofLineCoding
         THEN [w EXCEPT !.cdc.LineCoding.DataBits = w.io]
         ELSE w, LAMBDA w1 :
    IF /\ w1.dev.Setup.Request = CDC_REQ_SET_LINE_CODING
       /\ w1.cdc.LineCoding.DataBits # 0
    THEN cdc_init(w1)
    ELSE w1)

cdc_outData(w, e) ==
    AppCallback(w, "Received",
                [w.pd.ptr[e] EXCEPT !.off = @ - w.dev.EP[e].Length],
                w.dev.EP[e].Length)

\* the data pointer of the transfer is the one given, not the start of its
\* buffer
USBD_CDC_Transmit(w, data, length) ==
    Bind(USBD_EpSend(w, w.cdc.Config.InEpNum, data.buf, length), LAMBDA w1 :
    IF w1.ret = USBD_E_OK
    THEN [w1 EXCEPT !.pd.ptr[USBD_EpAddr2Ref(w.cdc.Config.InEpNum)] = data]
    ELSE w1)

cdc_inData(w, e) ==
    LET l0  == w.dev.EP[e].Length
        mps == w.dev.EP[e].MaxPacketSize
        len == IF l0 = 0 THEN w.cdc.TransmitLength ELSE l0
    IN  Bind(IF l0 = 0
             THEN [w EXCEPT !.cdc.TransmitLength = 0]
             ELSE IF BitAnd(l0, (mps - 1) % 65536) = 0
             THEN USBD_CDC_Transmit([w EXCEPT !.cdc.TransmitLength = l0],
                                    w.pd.ptr[e], 0)
             ELSE w, LAMBDA w1 :
        IF w1.dev.EP[e].State # USB_EP_STATE_DATA
        THEN [AppCallback(w1, "Transmitted",
                          [w1.pd.ptr[e] EXCEPT !.off = @ - len], len)
                EXCEPT !.obs.tx.cbs = Min(@ + 1, 2)]
        ELSE w1)

----------------------------------------------------------------------------
(* usbd_hid.c: the HID interface, built without OUT endpoint, alternate    *)
(* settings and boot protocol                                              *)

HID_REQ_GET_REPORT == 1
HID_REQ_GET_IDLE   == 2
HID_REQ_SET_REPORT == 9
HID_REQ_SET_IDLE   == 10

HID_DESC_TYPE_HID    == 33
HID_DESC_TYPE_REPORT == 34

HID_REPORT_INPUT   == 1
HID_REPORT_OUTPUT  == 2
HID_REPORT_FEATURE == 3

HID_IDLE_RATE_INDEFINITE == 65535

SizeofHidClassDesc == 9

BufHidDesc == "HidDesc"

hid_init(w) ==
    Bind(USBD_EpOpen(w, w.hid.Config.InEpNum, USB_EP_TYPE_INTERRUPT,
                     Min(w.hid.Report.InputMaxSize, USB_EP_INTR_FS_MPS)),
         LAMBDA w1 :
    AppCallback([w1 EXCEPT !.hid.Request = 0,
                           !.hid.IdleRate =
                              (w1.hid.Report.Interval_ms \div 4) % 256],
                "Init", 0, 0))

hid_deinit(w) ==
    AppCallback(USBD_EpClose(w, w.hid.Config.InEpNum), "Deinit", 0, 0)

\* id is the first byte of the report in data
USBD_HID_ReportIn(w, data, length, id) ==
    LET reportId == w.dev.Setup.Value % 256 IN
    IF w.hid.Request # 0 /\ (reportId = 0 \/ reportId = id)
    THEN [USBD_CtrlSendData(w, data, length) EXCEPT !.hid.Request = 0]
    ELSE USBD_EpSend(w, w.hid.Config.InEpNum, data, length)

\* the GetReport callback of the application answers with
\* USBD_HID_ReportIn when w.io is USBD_E_OK
hid_setupStage(w) ==
    LET reportId   == w.dev.Setup.Value % 256
        reportType == w.dev.Setup.Value \div 256
    IN
    CASE w.dev.Setup.Type = USB_REQ_TYPE_STANDARD ->
           IF w.dev.Setup.Request = USB_REQ_GET_DESCRIPTOR
           THEN CASE reportType = HID_DESC_TYPE_HID ->
                       USBD_CtrlSendData(w, BufHidDesc, SizeofHidClassDesc)
                  [] reportType = HID_DESC_TYPE_REPORT ->
                       USBD_CtrlSendData(w, BufHidDesc,
                                         w.hid.Report.DescLength)
                  [] OTHER -> Ret(w, USBD_E_ERROR)
           ELSE Ret(w, USBD_E_ERROR)
      [] w.dev.Setup.Type = USB_REQ_TYPE_CLASS ->
           CASE w.dev.Setup.Request = HID_REQ_GET_REPORT ->
                  Bind(AppCallback([w EXCEPT !.hid.Request = reportType],
                                   "GetReport", reportType, reportId),
                       LAMBDA w1 :
                  Bind(IF w1.io = USBD_E_OK
                       THEN USBD_HID_ReportIn(w1, BufApp,
                                              w1.hid.Report.InputMaxSize,
                                              reportId)
                       ELSE w1, LAMBDA w2 :
                  Ret([w2 EXCEPT !.hid.Request = 0],
                      IF w2.hid.Request = 0 THEN USBD_E_OK
                      ELSE USBD_E_ERROR)))
             [] w.dev.Setup.Request = HID_REQ_SET_REPORT ->
                  USBD_CtrlReceiveData(w, BufCtrlData,
                                       IF reportType = HID_REPORT_OUTPUT
                                       THEN w.hid.Report.OutputMaxSize
                                       ELSE w.hid.Report.FeatureMaxSize)
             [] w.dev.Setup.Request = HID_REQ_GET_IDLE ->
                  USBD_CtrlSendData(w, BufCtrlData, 1)
             [] w.dev.Setup.Request = HID_REQ_SET_IDLE ->
                  LET idleRate == reportType % 256 IN
                  Bind(IF reportId = 0
                       THEN [w EXCEPT !.hid.IdleRate = idleRate]
                       ELSE w, LAMBDA w1 :
                  Ret(AppCallback(w1, "SetIdle",
                                  IF idleRate > 0
                                  THEN (4 * w1.hid.IdleRate) % 65536
                                  ELSE HID_IDLE_RATE_INDEFINITE,
                                  reportId), USBD_E_OK))
             [] OTHER -> Ret(w, USBD_E_ERROR)
      [] OTHER -> Ret(w, USBD_E_ERROR)

hid_dataStage(w) ==
    IF w.dev.Setup.Request = HID_REQ_SET_REPORT
    THEN [AppCallback(w, "SetReport", (w.dev.Setup.Value \div 256) % 256,
                      w.dev.Setup.Length)
            EXCEPT !.hid.Request = 0]
    ELSE w

hid_inData(w, e) == AppCallback(w, "InReportSent", 0, 0)

----------------------------------------------------------------------------
(* usbd_dfu.c: the DFU interface, built without alternate settings,        *)
(* without the ST extension and not manifestation tolerant.  The           *)
(* application gives every callback.  dfu.Address is the distance of the   *)
(* transfer address from Firmware.Address; dfu.Tag tells that both tag     *)
(* words hold the DFU mode tag; dfu.reboot tells that the Reboot callback  *)
(* was called and the system is about to restart.  The value a firmware    *)
(* callback returns is w.io.                                               *)

DFU_REQ_DETACH    == 0
DFU_REQ_DNLOAD    == 1
DFU_REQ_UPLOAD    == 2
DFU_REQ_GETSTATUS == 3
DFU_REQ_CLRSTATUS == 4
DFU_REQ_GETSTATE  == 5
DFU_REQ_ABORT     == 6

DFU_STATE_APP_IDLE            == 0
DFU_STATE_APP_DETACH          == 1
DFU_STATE_IDLE                == 2
DFU_STATE_DNLOAD_SYNC         == 3
DFU_STATE_DNLOAD_BUSY         == 4
DFU_STATE_DNLOAD_IDLE         == 5
DFU_STATE_MANIFEST_SYNC       == 6
DFU_STATE_MANIFEST            == 7
DFU_STATE_MANIFEST_WAIT_RESET == 8
DFU_STATE_UPLOAD_IDLE         == 9
DFU_STATE_ERROR               == 10

DFU_ERROR_NONE       == 0
DFU_ERROR_WRITE      == 3
DFU_ERROR_FIRMWARE   == 10
DFU_ERROR_STALLEDPKT == 15

DFU_DESC_TYPE_FUNCTIONAL == 33
SizeofDfuStatus   == 6
SizeofDfuFuncDesc == 9

\* Firmware.TotalSize of the application
FirmwareTotalSize == 80

BufDevStatus == "DevStatus"

\* the states in which the request with the given code is valid
dfu_validStates ==
    <<{DFU_STATE_APP_IDLE},
      {DFU_STATE_IDLE, DFU_STATE_DNLOAD_IDLE},
      {DFU_STATE_IDLE, DFU_STATE_UPLOAD_IDLE},
      {DFU_STATE_APP_IDLE, DFU_STATE_APP_DETACH, DFU_STATE_IDLE,
       DFU_STATE_DNLOAD_SYNC, DFU_STATE_DNLOAD_IDLE, DFU_STATE_MANIFEST_SYNC,
       DFU_STATE_UPLOAD_IDLE, DFU_STATE_ERROR},
      {DFU_STATE_ERROR},
      {DFU_STATE_APP_IDLE, DFU_STATE_APP_DETACH, DFU_STATE_IDLE,
       DFU_STATE_DNLOAD_SYNC, DFU_STATE_DNLOAD_IDLE, DFU_STATE_MANIFEST_SYNC,
       DFU_STATE_UPLOAD_IDLE, DFU_STATE_ERROR},
      {DFU_STATE_IDLE, DFU_STATE_DNLOAD_SYNC, DFU_STATE_DNLOAD_IDLE,
       DFU_STATE_MANIFEST_SYNC, DFU_STATE_UPLOAD_IDLE}>>

DFU_CLASS_REQ_COUNT == Len(dfu_validStates)

dfu_init(w) ==
    Bind([w EXCEPT !.dfu.PollTimeout = 0, !.dfu.Tag = FALSE], LAMBDA w1 :
    IF w1.dfu.State >= DFU_STATE_IDLE
    THEN AppCallback([w1 EXCEPT !.dfu.Address = 0, !.dfu.BlockNum = 0,
                                !.dfu.BlockLength = 0], "Init", 0, 0)
    ELSE w1)

dfu_deinit(w) ==
    IF w.dfu.State >= DFU_STATE_IDLE
    THEN AppCallback(w, "Deinit", 0, 0)
    ELSE w

----------------------------------------------------------------------------
(* usbd_private.h: class callouts.  dev.If[n] names the class mounted at   *)
(* interface slot n ("NULL" for an empty slot).                            *)

USBD_IfClass_Init(w, ifNum) ==
    CASE w.dev.If[ifNum] = "MSC" -> msc_init(w)
      [] w.dev.If[ifNum] = "NCM" -> ncm_init(w)
      [] w.dev.If[ifNum] = "HID" -> hid_init(w)
      [] w.dev.If[ifNum] = "DFU" -> dfu_init(w)
      [] OTHER -> w

USBD_IfClass_Deinit(w, ifNum) ==
    CASE w.dev.If[ifNum] = "MSC" -> msc_deinit(w)
      [] w.dev.If[ifNum] = "NCM" -> ncm_deinit(w)
      [] w.dev.If[ifNum] = "CDC" -> cdc_deinit(w)
      [] w.dev.If[ifNum] = "HID" -> hid_deinit(w)
      [] w.dev.If[ifNum] = "DFU" -> dfu_deinit(w)
      [] OTHER -> w

----------------------------------------------------------------------------
(* usbd_if.c *)

RECURSIVE IfDeinitAll(_, _)
\* for (ifNum = 0; ifNum < IfCount; ifNum++) { Deinit; AltSelector = 0; }
IfDeinitAll(w, ifNum) ==
    IF ifNum >= w.dev.IfCount THEN w
    ELSE Bind([USBD_IfClass_Deinit(w, ifNum)
                 EXCEPT !.dev.AltSelector[ItfSlot(w, ifNum)] = 0], LAMBDA w1 :
         IfDeinitAll(w1, ifNum + 1))

RECURSIVE IfInitAll(_, _)
\* for (ifNum = 0; ifNum < IfCount; ifNum++) { Init; }
IfInitAll(w, ifNum) ==
    IF ifNum >= w.dev.IfCount THEN w
    ELSE Bind(USBD_IfClass_Init(w, ifNum), LAMBDA w1 :
         IfInitAll(w1, ifNum + 1))

USBD_IfConfig(w, cfgNum) ==
    IF w.dev.ConfigSelector # cfgNum
    THEN Bind(IF w.dev.ConfigSelector # 0 THEN IfDeinitAll(w, 0) ELSE w,
              LAMBDA w1 :
         Bind([w1 EXCEPT !.dev.ConfigSelector = cfgNum], LAMBDA w2 :
         IF cfgNum # 0 THEN IfInitAll(w2, 0) ELSE w2))
    ELSE w

----------------------------------------------------------------------------
(* usbd.c: shutdown, and the requests of the DFU interface that need it *)

USBD_Deinit(w) ==
    [USBD_IfConfig(w, 0) EXCEPT !.pd.on = FALSE,
                                !.pd.xfer = [e \in EpKeys |-> <<>>]]

dfu_detach(w) ==
    Bind(USBD_Deinit([w EXCEPT !.dfu.State = DFU_STATE_APP_DETACH]),
         LAMBDA w1 :
    Ret(AppCallback([w1 EXCEPT !.dfu.Tag = TRUE, !.dfu.reboot = TRUE],
                    "Reboot", 0, 0), USBD_E_OK))

\* USBD_CtrlReceiveData is called without a length here: the transfer
\* takes the wLength of the request
dfu_download(w) ==
    IF w.dev.Setup.Length > 0
    THEN Bind(IF w.dfu.State = DFU_STATE_IDLE
              THEN [w EXCEPT !.dfu.Address = 0, !.dfu.BlockNum = 65535]
              ELSE w, LAMBDA w1 :
         IF /\ w1.dev.Setup.Value = (w1.dfu.BlockNum + 1) % 65536
            /\ w1.dfu.Address + w1.dev.Setup.Length < FirmwareTotalSize
         THEN USBD_CtrlReceiveData(
                [w1 EXCEPT !.dfu.BlockNum = w1.dev.Setup.Value,
                           !.dfu.BlockLength = w1.dev.Setup.Length,
                           !.dfu.State = DFU_STATE_DNLOAD_SYNC],
                BufCtrlData, w1.dev.Setup.Length)
         ELSE Ret(w1, USBD_E_INVALID))
    ELSE Ret([w EXCEPT !.dfu.BlockLength = 1,
                       !.dfu.State = DFU_STATE_MANIFEST_SYNC], USBD_E_OK)

dfu_upload(w) ==
    IF w.dev.Setup.Length > 0
    THEN Bind(IF w.dfu.State = DFU_STATE_IDLE
              THEN [w EXCEPT !.dfu.Address = 0, !.dfu.BlockNum = 65535]
              ELSE w, LAMBDA w1 :
         IF w1.dev.Setup.Value = (w1.dfu.BlockNum + 1) % 65536
         THEN LET progress == w1.dfu.Address
                  short == progress + w1.dev.Setup.Length > FirmwareTotalSize
                  len == IF short THEN (FirmwareTotalSize - progress) % 65536
                         ELSE w1.dev.Setup.Length
              IN  Bind(AppCallback(
                         [w1 EXCEPT !.dfu.State = IF short THEN DFU_STATE_IDLE
                                                  ELSE DFU_STATE_UPLOAD_IDLE],
                         "Read", progress, len), LAMBDA w2 :
                  USBD_CtrlSendData(
                    [w2 EXCEPT !.dfu.Address = @ + len,
                               !.dfu.BlockNum = w2.dev.Setup.Value],
                    BufCtrlData, len))
         ELSE Ret(w1, USBD_E_INVALID))
    ELSE Ret([w EXCEPT !.dfu.State = DFU_STATE_IDLE], USBD_E_OK)

dfu_getStatus(w) ==
    LET sync == w.dfu.State \in {DFU_STATE_DNLOAD_SYNC, DFU_STATE_MANIFEST_SYNC}
        nextState ==
          IF ~sync THEN w.dfu.State
          ELSE IF w.dfu.BlockLength > 0 THEN w.dfu.State + 1
          ELSE IF w.dfu.State = DFU_STATE_DNLOAD_SYNC THEN DFU_STATE_DNLOAD_IDLE
          ELSE DFU_STATE_IDLE
    IN  Bind(IF sync /\ w.dfu.BlockLength > 0
             THEN AppCallback([w EXCEPT !.dfu.PollTimeout = 1],
                              "GetTimeout_ms", w.dfu.Address, w.dfu.BlockLength)
             ELSE IF sync THEN [w EXCEPT !.dfu.State = nextState]
             ELSE w, LAMBDA w1 :
        Bind(USBD_CtrlSendData(w1, BufDevStatus, SizeofDfuStatus), LAMBDA w2 :
        Ret([w2 EXCEPT !.dfu.State = nextState], USBD_E_OK)))

dfu_clearStatus(w) ==
    Ret([w EXCEPT !.dfu.State = DFU_STATE_IDLE, !.dfu.Status = DFU_ERROR_NONE,
                  !.dfu.PollTimeout = 0], USBD_E_OK)

dfu_getState(w) == USBD_CtrlSendData(w, BufDevStatus, 1)

dfu_abort(w) ==
    Ret([w EXCEPT !.dfu.State = DFU_STATE_IDLE, !.dfu.Status = DFU_ERROR_NONE,
                  !.dfu.PollTimeout = 0, !.dfu.BlockNum = 0,
                  !.dfu.BlockLength = 0], USBD_E_OK)

dfu_reqFns(w, reqId) ==
    CASE reqId = DFU_REQ_DETACH    -> dfu_detach(w)
      [] reqId = DFU_REQ_DNLOAD    -> dfu_download(w)
      [] reqId = DFU_REQ_UPLOAD    -> dfu_upload(w)
      [] reqId = DFU_REQ_GETSTATUS -> dfu_getStatus(w)
      [] reqId = DFU_REQ_CLRSTATUS -> dfu_clearStatus(w)
      [] reqId = DFU_REQ_GETSTATE  -> dfu_getState(w)
      [] reqId = DFU_REQ_ABORT     -> dfu_abort(w)

\* the else branches of the class request: the request function was not
\* called or did not return OK
dfu_unexpected(w) ==
    Ret(IF w.dfu.State < DFU_STATE_IDLE
        THEN [w EXCEPT !.dfu.State = DFU_STATE_APP_IDLE]
        ELSE [w EXCEPT !.dfu.State = DFU_STATE_ERROR,
                       !.dfu.Status = DFU_ERROR_STALLEDPKT], USBD_E_INVALID)

\* faulty variant of dfu_setupStage: the request function is called in
\* every state
dfu_setupStage_AnyState(w) ==
    IF w.dev.Setup.Type = USB_REQ_TYPE_CLASS
    THEN LET reqId == w.dev.Setup.Request IN
         IF reqId < DFU_CLASS_REQ_COUNT
         THEN Bind(dfu_reqFns(w, reqId), LAMBDA w1 :
              IF w1.ret = USBD_E_OK THEN w1 ELSE dfu_unexpected(w1))
         ELSE dfu_unexpected(w)
    ELSE Ret(w, USBD_E_INVALID)

dfu_setupStage(w) ==
    CASE w.dev.Setup.Type = USB_REQ_TYPE_STANDARD ->
           IF /\ w.dev.Setup.Request = USB_REQ_GET_DESCRIPTOR
              /\ w.dev.Setup.Value \div 256 = DFU_DESC_TYPE_FUNCTIONAL
           THEN USBD_CtrlSendData(w, BufCtrlData, SizeofDfuFuncDesc)
           ELSE Ret(w, USBD_E_INVALID)
      [] w.dev.Setup.Type = USB_REQ_TYPE_CLASS ->
           LET reqId == w.dev.Setup.Request IN
           IF /\ reqId < DFU_CLASS_REQ_COUNT
              /\ w.dfu.State \in dfu_validStates[reqId + 1]
           THEN Bind(dfu_reqFns(w, reqId), LAMBDA w1 :
                IF w1.ret = USBD_E_OK THEN w1 ELSE dfu_unexpected(w1))
           ELSE dfu_unexpected(w)
      [] OTHER -> Ret(w, USBD_E_INVALID)

dfu_dataStage(w) ==
    Bind(IF /\ w.dev.Setup.Type = USB_REQ_TYPE_CLASS
            /\ w.dev.Setup.Request = DFU_REQ_GETSTATUS
         THEN CASE w.dfu.State = DFU_STATE_DNLOAD_BUSY ->
                     Bind([w EXCEPT !.dfu.State = DFU_STATE_DNLOAD_SYNC],
                          LAMBDA w1 :
                     Bind(IF w1.dfu.Address = 0
                          THEN [AppCallback(w1, "Erase", w1.dfu.Address, 0)
                                  EXCEPT !.dfu.Status = w1.io]
                          ELSE w1, LAMBDA w2 :
                     Bind(IF w2.dfu.Status = DFU_ERROR_NONE
                          THEN [AppCallback(w2, "Write", w2.dfu.Address,
                                            w2.dfu.BlockLength)
                                  EXCEPT !.dfu.Status = w2.io,
                                         !.obs.wrote = w2.obs.buf,
                                         !.dfu.Address = @ + w2.dfu.BlockLength]
                          ELSE w2, LAMBDA w3 :
                     [w3 EXCEPT !.dfu.BlockLength = 0,
                                !.dfu.PollTimeout = 0])))
                [] w.dfu.State = DFU_STATE_MANIFEST ->
                     Bind([AppCallback(w, "Manifest", 0, 0)
                             EXCEPT !.dfu.Status = w.io], LAMBDA w1 :
                     IF w1.dfu.Status = DFU_ERROR_NONE
                     THEN Bind(USBD_Deinit(
                                 [w1 EXCEPT !.dfu.State =
                                              DFU_STATE_MANIFEST_WAIT_RESET]),
                               LAMBDA w2 :
                          AppCallback([w2 EXCEPT !.dfu.reboot = TRUE],
                                      "Reboot", 0, 0))
                     ELSE w1)
                [] OTHER -> w
         ELSE w, LAMBDA wd :
    IF wd.dfu.Status # DFU_ERROR_NONE
    THEN [wd EXCEPT !.dfu.State = DFU_STATE_ERROR]
    ELSE wd)

\* USBD_DFU_BootInit in the bootloader, USBD_DFU_AppInit in the application
USBD_DFU_BootInit(w) ==
    IF w.dfu.Tag
    THEN [w EXCEPT !.dfu.State = DFU_STATE_IDLE, !.dfu.Status = DFU_ERROR_NONE]
    ELSE [w EXCEPT !.dfu.State = DFU_STATE_ERROR,
                   !.dfu.Status = DFU_ERROR_FIRMWARE]

USBD_DFU_AppInit(w) ==
    [w EXCEPT !.dfu.State = DFU_STATE_APP_IDLE, !.dfu.Status = DFU_ERROR_NONE]

----------------------------------------------------------------------------
(* usbd_private.h: class callouts for requests and transfers *)

USBD_IfClass_SetupStage(w, ifNum) ==
    CASE w.dev.If[ifNum] = "MSC" -> msc_setupStage(w)
      [] w.dev.If[ifNum] = "NCM" -> ncm_setupStage(w)
      [] w.dev.If[ifNum] = "CDC" -> cdc_setupStage(w)
      [] w.dev.If[ifNum] = "HID" -> hid_setupStage(w)
      [] w.dev.If[ifNum] = "DFU" -> dfu_setupStage(w)
      [] OTHER -> Ret(w, USBD_E_INVALID)

\* the MSC class has no DataStage callback; obs.ctl.ds counts the calls of
\* the callback in the control transfer and obs.ctl.dsAt notes the Status
\* stage and the transfers pending on EP0 at the last call
USBD_IfClass_DataStage(w, ifNum) ==
    IF w.dev.If[ifNum] \in {"NCM", "CDC", "HID", "DFU"}
    THEN [(CASE w.dev.If[ifNum] = "NCM" -> ncm_dataStage(w)
             [] w.dev.If[ifNum] = "CDC" -> cdc_dataStage(w)
             [] w.dev.If[ifNum] = "HID" -> hid_dataStage(w)
             [] w.dev.If[ifNum] = "DFU" -> dfu_dataStage(w))
            EXCEPT !.obs.ctl.ds = Min(@ + 1, 2),
                   !.obs.ctl.dsAt = [status |-> w.obs.ctl.status,
                                     pending |-> w.pd.xfer[0] # <<>>
                                                 \/ w.pd.xfer[128] # <<>>]]
    ELSE w

USBD_IfClass_InData(w, ifNum, e) ==
    CASE w.dev.If[ifNum] = "MSC" -> msc_inData(w, e)
      [] w.dev.If[ifNum] = "NCM" -> ncm_inData(w, e)
      [] w.dev.If[ifNum] = "CDC" -> cdc_inData(w, e)
      [] w.dev.If[ifNum] = "HID" -> hid_inData(w, e)
      [] OTHER -> w

USBD_IfClass_OutData(w, ifNum, e) ==
    CASE w.dev.If[ifNum] = "MSC" -> msc_outData(w, e)
      [] w.dev.If[ifNum] = "NCM" -> ncm_outData(w, e)
      [] w.dev.If[ifNum] = "CDC" -> cdc_outData(w, e)
      [] OTHER -> w

----------------------------------------------------------------------------
(* usbd_if.c: interface requests *)

\* faulty variant of USBD_IfRequest: SET_INTERFACE calls Init before Deinit
USBD_IfRequest_InitFirst(w) ==
    LET ifNum == w.dev.Setup.Index % 256 IN
    IF w.dev.ConfigSelector = 0 \/ ifNum >= w.dev.IfCount
    THEN Ret(w, USBD_E_INVALID)
    ELSE IF w.dev.Setup.Type = USB_REQ_TYPE_STANDARD
            /\ w.dev.Setup.Request = USB_REQ_GET_INTERFACE
    THEN USBD_CtrlSendData(w, BufCtrlData, 1)
    ELSE IF w.dev.Setup.Type = USB_REQ_TYPE_STANDARD
            /\ w.dev.Setup.Request = USB_REQ_SET_INTERFACE
    THEN LET altSel == w.dev.Setup.Value % 256 IN
         IF w.dev.AltCount[ItfSlot(w, ifNum)] > altSel
         THEN Bind([w EXCEPT !.dev.AltSelector[ItfSlot(w, ifNum)] = altSel],
                   LAMBDA w1 :
              Bind(USBD_IfClass_Init(w1, ifNum), LAMBDA w2 :
              Ret(USBD_IfClass_Deinit(w2, ifNum), USBD_E_OK)))
         ELSE Ret(w, USBD_E_INVALID)
    ELSE USBD_IfClass_SetupStage(w, ifNum)

USBD_IfRequest(w) ==
    LET ifNum == w.dev.Setup.Index % 256 IN
    IF w.dev.ConfigSelector = 0 \/ ifNum >= w.dev.IfCount
    THEN Ret(w, USBD_E_INVALID)
    ELSE IF w.dev.Setup.Type = USB_REQ_TYPE_STANDARD
    THEN CASE w.dev.Setup.Request = USB_REQ_GET_INTERFACE
                -> USBD_CtrlSendData(w, BufCtrlData, 1)
           [] w.dev.Setup.Request = USB_REQ_SET_INTERFACE
                -> LET altSel == w.dev.Setup.Value % 256 IN
                   IF w.dev.AltCount[ItfSlot(w, ifNum)] > altSel
                   THEN Bind([USBD_IfClass_Deinit(w, ifNum)
                               EXCEPT !.dev.AltSelector[ItfSlot(w, ifNum)] = altSel],
                             LAMBDA w1 :
                        Ret(USBD_IfClass_Init(w1, ifNum), USBD_E_OK))
                   ELSE Ret(w, USBD_E_INVALID)
           [] OTHER -> USBD_IfClass_SetupStage(w, ifNum)
    ELSE USBD_IfClass_SetupStage(w, ifNum)

----------------------------------------------------------------------------
(* usbd_ep.c: endpoint requests *)

USBD_EpRequest(w) ==
    LET epAddr == w.dev.Setup.Index % 256
        epNum  == BitAnd(epAddr, 15)
        e      == USBD_EpAddr2Ref(epAddr)
    IN  IF epNum >= USBD_MAX_EP_COUNT \/ epNum = 0 \/ w.dev.ConfigSelector = 0
        THEN Ret(w, USBD_E_INVALID)
        ELSE IF w.dev.Setup.Type = USB_REQ_TYPE_STANDARD
        THEN CASE w.dev.Setup.Request = USB_REQ_SET_FEATURE ->
                    IF w.dev.Setup.Value = USB_FEATURE_EP_HALT
                    THEN Ret(IF w.dev.EP[e].State # USB_EP_STATE_STALL
                             THEN [USBD_PD_EpSetStall(w, epAddr)
                                     EXCEPT !.dev.EP[e].State = USB_EP_STATE_STALL,
                                            !.obs.cleared = @ \ {e}]
                             ELSE w, USBD_E_OK)
                    ELSE Ret(w, USBD_E_INVALID)
               [] w.dev.Setup.Request = USB_REQ_CLEAR_FEATURE ->
                    IF w.dev.Setup.Value = USB_FEATURE_EP_HALT
                    THEN IF w.dev.EP[e].State = USB_EP_STATE_STALL
                         THEN Bind([USBD_PD_EpClearStall(w, epAddr)
                                      EXCEPT !.dev.EP[e].State = USB_EP_STATE_IDLE,
                                             !.dev.EP[e].Length = 0,
                                             !.obs.cleared = @ \cup {e}],
                                   LAMBDA w1 :
                              Ret(IF epAddr # epNum
                                  THEN USBD_IfClass_InData(w1, w1.dev.EP[e].IfNum, e)
                                  ELSE USBD_IfClass_OutData(w1, w1.dev.EP[e].IfNum, e),
                                  USBD_E_OK))
                         ELSE Ret(w, USBD_E_OK)
                    ELSE Ret(w, USBD_E_INVALID)
               [] w.dev.Setup.Request = USB_REQ_GET_STATUS ->
                    USBD_CtrlSendData(w, BufCtrlData, 2)
               [] OTHER -> Ret(w, USBD_E_INVALID)
        ELSE Ret(w, USBD_E_INVALID)

----------------------------------------------------------------------------
(* usbd_desc.c.  dev.Desc holds the character counts of the strings of the *)
(* device description.                                                     *)

USBD_DeviceDesc == SizeofDeviceDesc

\* msc_getDesc: interface descriptor and the two endpoint descriptors
msc_getDesc == SizeofInterfaceDesc + SizeofEndpointDesc + SizeofEndpointDesc

RECURSIVE IfDescLen(_, _)
IfDescLen(w, ifNum) ==
    IF ifNum >= w.dev.IfCount THEN 0
    ELSE (IF w.dev.If[ifNum] = "MSC" THEN msc_getDesc ELSE 0)
         + IfDescLen(w, ifNum + 1)

USBD_ConfigDesc(w) == SizeofConfigDesc + IfDescLen(w, 0)

USBD_GetStringDesc(strlen) == 2 + 2 * strlen

\* length of the selected interface's string, 0 for NULL
USBD_IfString(w) ==
    LET ifNum == (BitAnd(w.dev.Setup.Value % 256, 15) - USBD_ISTR_INTERFACES) % 256
    IN  IF ifNum < w.dev.IfCount /\ w.dev.If[ifNum] = "MSC"
        THEN w.dev.Desc.IfString
        ELSE 0

USBD_GetDescriptor(w) ==
    LET type == w.dev.Setup.Value \div 256
        idx  == w.dev.Setup.Value % 256
        len  == CASE type = USB_DESC_TYPE_DEVICE -> USBD_DeviceDesc
                  [] type = USB_DESC_TYPE_CONFIGURATION -> USBD_ConfigDesc(w)
                  [] type = USB_DESC_TYPE_STRING ->
                       CASE idx = USBD_ISTR_LANGID  -> SizeofLangIdDesc
                         [] idx = USBD_ISTR_VENDOR  -> USBD_GetStringDesc(w.dev.Desc.Vendor)
                         [] idx = USBD_ISTR_PRODUCT -> USBD_GetStringDesc(w.dev.Desc.Product)
                         [] idx = USBD_ISTR_CONFIG  -> USBD_GetStringDesc(w.dev.Desc.Config)
                         [] OTHER -> IF USBD_IfString(w) # 0
                                     THEN USBD_GetStringDesc(USBD_IfString(w))
                                     ELSE 0
                  [] OTHER -> 0
    IN  IF len > 0 THEN USBD_CtrlSendData(w, BufCtrlData, len)
        ELSE Ret(w, USBD_E_INVALID)

----------------------------------------------------------------------------
(* usbd.c: device requests *)

\* faulty variant of USBD_SetAddress: the configuration is not looked at
USBD_SetAddress_AnyConfig(w) ==
    IF w.dev.Setup.Index = 0 /\ w.dev.Setup.Length = 0
    THEN Ret(w, USBD_E_OK)
    ELSE Ret(w, USBD_E_INVALID)

USBD_SetAddress(w) ==
    IF w.dev.Setup.Index = 0 /\ w.dev.Setup.Length = 0 /\ w.dev.ConfigSelector = 0
    THEN Ret(w, USBD_E_OK)
    ELSE Ret(w, USBD_E_INVALID)

USBD_SetConfig(w) ==
    LET cfgNum == w.dev.Setup.Value % 256 IN
    IF cfgNum <= USBD_MAX_CONFIGURATION_COUNT
    THEN Ret(USBD_IfConfig(w, cfgNum), USBD_E_OK)
    ELSE Ret(w, USBD_E_INVALID)

USBD_GetConfig(w) == USBD_CtrlSendData(w, BufCtrlData, 1)

USBD_GetStatus(w) == USBD_CtrlSendData(w, BufCtrlData, 2)

USBD_SetFeature(w) ==
    IF w.dev.Setup.Value = USB_FEATURE_REMOTE_WAKEUP
    THEN Ret([w EXCEPT !.dev.RemoteWakeup = 1], USBD_E_OK)
    ELSE Ret(w, USBD_E_INVALID)

USBD_ClearFeature(w) ==
    IF w.dev.Setup.Value = USB_FEATURE_REMOTE_WAKEUP
    THEN Ret([w EXCEPT !.dev.RemoteWakeup = 0], USBD_E_OK)
    ELSE Ret(w, USBD_E_INVALID)

USBD_DevRequest(w) ==
    IF w.dev.Setup.Type = USB_REQ_TYPE_STANDARD
    THEN CASE w.dev.Setup.Request = USB_REQ_GET_DESCRIPTOR    -> USBD_GetDescriptor(w)
           [] w.dev.Setup.Request = USB_REQ_SET_ADDRESS       -> USBD_SetAddress(w)
           [] w.dev.Setup.Request = USB_REQ_SET_CONFIGURATION -> USBD_SetConfig(w)
           [] w.dev.Setup.Request = USB_REQ_GET_CONFIGURATION -> USBD_GetConfig(w)
           [] w.dev.Setup.Request = USB_REQ_GET_STATUS        -> USBD_GetStatus(w)
           [] w.dev.Setup.Request = USB_REQ_SET_FEATURE       -> USBD_SetFeature(w)
           [] w.dev.Setup.Request = USB_REQ_CLEAR_FEATURE     -> USBD_ClearFeature(w)
           [] OTHER -> Ret(w, USBD_E_INVALID)
    ELSE Ret(w, USBD_E_INVALID)

----------------------------------------------------------------------------
(* usbd_ctrl.c: setup and completion callbacks of EP0 *)

\* switch (dev->Setup.RequestType.Recipient) of USBD_SetupCallback
USBD_SetupRoute(w) ==
    CASE w.dev.Setup.Recipient = USB_REQ_RECIPIENT_DEVICE    -> USBD_DevRequest(w)
      [] w.dev.Setup.Recipient = USB_REQ_RECIPIENT_INTERFACE -> USBD_IfRequest(w)
      [] w.dev.Setup.Recipient = USB_REQ_RECIPIENT_ENDPOINT  -> USBD_EpRequest(w)
      [] OTHER -> Ret(w, USBD_E_INVALID)

USBD_SetupCallback(w) ==
    Bind([w EXCEPT !.dev.EP[0].State = USB_EP_STATE_SETUP], LAMBDA w1 :
    Bind(USBD_SetupRoute(w1), LAMBDA w2 :
    Bind([w2 EXCEPT !.obs.ctl.ret = w2.ret], LAMBDA w3 :
    IF w3.ret # USBD_E_OK THEN USBD_CtrlSendError(w3)
    ELSE IF w3.dev.Setup.Length = 0 THEN USBD_CtrlSendStatus(w3)
    ELSE w3)))

USBD_CtrlInCallback(w) ==
    LET ep == w.dev.EP[128] IN
    IF ep.Length < w.dev.Setup.Length
       /\ ep.Length >= ep.MaxPacketSize
       /\ BitAnd(ep.Length, ep.MaxPacketSize - 1) = 0
    THEN USBD_PD_EpSend(w, 128, BufNULL, 0)
    ELSE Bind([w EXCEPT !.dev.EP[128].State = USB_EP_STATE_IDLE], LAMBDA w1 :
         IF w1.dev.Setup.Direction = USB_DIRECTION_IN
         THEN Bind(IF w1.dev.ConfigSelector # 0
                      /\ w1.dev.Setup.Recipient = USB_REQ_RECIPIENT_INTERFACE
                   THEN USBD_IfClass_DataStage(w1, w1.dev.Setup.Index % 256)
                   ELSE w1, LAMBDA w2 :
              USBD_CtrlReceiveStatus(w2))
         ELSE IF w1.dev.Setup.Direction = USB_DIRECTION_OUT
                 /\ w1.dev.Setup.Type = USB_REQ_TYPE_STANDARD
                 /\ w1.dev.Setup.Recipient = USB_REQ_RECIPIENT_DEVICE
                 /\ w1.dev.Setup.Request = USB_REQ_SET_ADDRESS
         THEN USBD_PD_SetAddress(w1, BitAnd(w1.dev.Setup.Value, 127))
         ELSE w1)

\* faulty variant of USBD_CtrlOutCallback: the Status stage is started
\* before the DataStage callback is called
USBD_CtrlOutCallback_StatusFirst(w) ==
    IF w.dev.Setup.Length > 0 /\ w.dev.Setup.Direction = USB_DIRECTION_OUT
    THEN Bind(USBD_CtrlSendStatus(w), LAMBDA w1 :
         IF w1.dev.ConfigSelector # 0
         THEN USBD_IfClass_DataStage(w1, w1.dev.Setup.Index % 256)
         ELSE w1)
    ELSE w

USBD_CtrlOutCallback(w) ==
    IF w.dev.Setup.Length > 0 /\ w.dev.Setup.Direction = USB_DIRECTION_OUT
    THEN Bind(IF w.dev.ConfigSelector # 0
              THEN USBD_IfClass_DataStage(w, w.dev.Setup.Index % 256)
              ELSE w, LAMBDA w1 :
         USBD_CtrlSendStatus(w1))
    ELSE w

----------------------------------------------------------------------------
(* usbd_ep.c: transfer completion callbacks *)

USBD_EpInCallback(w, e) ==
    IF e = 128 THEN USBD_CtrlInCallback(w)
    ELSE Bind([w EXCEPT !.dev.EP[e].State = USB_EP_STATE_IDLE], LAMBDA w1 :
         USBD_IfClass_InData(w1, w1.dev.EP[e].IfNum, e))

USBD_EpOutCallback(w, e) ==
    Bind([w EXCEPT !.dev.EP[e].State = USB_EP_STATE_IDLE], LAMBDA w1 :
    IF e = 0 THEN USBD_CtrlOutCallback(w1)
    ELSE USBD_IfClass_OutData(w1, w1.dev.EP[e].IfNum, e))

----------------------------------------------------------------------------
(* usbd.c: bus reset and application calls *)

USBD_ResetCallback(w) ==
    [USBD_PD_CtrlEpOpen(USBD_IfConfig(w, 0))
        EXCEPT !.dev.EP[0].State = USB_EP_STATE_IDLE]

\* USBD_PD_Stop detaches the device: nothing completes until the next reset
USBD_Disconnect(w) ==
    [USBD_IfConfig(w, 0) EXCEPT !.pd.on = FALSE,
                                !.pd.xfer = [e \in EpKeys |-> <<>>]]

----------------------------------------------------------------------------
(* State after construction: USBD_Init, then USBD_MSC_MountInterface with  *)
(* bulk IN 0x81 and bulk OUT 0x01, then USBD_Connect.                      *)

SetupNone == [Direction |-> 0, Type |-> 0, Recipient |-> 0, Request |-> 0,
              Value |-> 0, Index |-> 0, Length |-> 0]

CbwNone == [sig |-> FALSE, dTag |-> 0, dDataLength |-> 0, bmFlags |-> 0,
            bLUN |-> 0, bCBLength |-> 0,
            CB |-> [op |-> 0, flag |-> 0, lba |-> 0, len |-> 0]]

EvNone == [t |-> "init", ep |-> 0, n |-> 0]

BotNone == [open |-> FALSE, xferred |-> 0, csws |-> 0, scsi |-> 0]

MscEps == {129, 1}

DevInit ==
    [ConfigSelector |-> 0, RemoteWakeup |-> 0, Setup |-> SetupNone,
     EP |-> [e \in EpKeys |->
               [State |-> USB_EP_STATE_CLOSED,
                Type  |-> IF e \in MscEps THEN USB_EP_TYPE_BULK
                                          ELSE USB_EP_TYPE_CONTROL,
                MaxPacketSize |-> IF e \in {0, 128} THEN USB_EP0_FS_MAX_PACKET_SIZE
                                  ELSE IF e \in MscEps THEN USB_EP_BULK_FS_MPS
                                  ELSE 0,
                IfNum |-> 0, Length |-> 0]],
     IfCount |-> 1,
     If |-> [n \in 0 .. USBD_MAX_IF_COUNT - 1 |-> IF n = 0 THEN "MSC" ELSE "NULL"],
     AltSelector |-> [n \in 0 .. USBD_MAX_IF_COUNT - 1 |-> 0],
     AltCount |-> [n \in 0 .. USBD_MAX_IF_COUNT - 1 |-> IF n = 0 THEN 1 ELSE 0],
     Desc |-> [Vendor |-> 31, Product |-> 7, Config |-> 3, IfString |-> 16]]

PdInit ==
    [on |-> FALSE, addr |-> 0,
     xfer |-> [e \in EpKeys |-> <<>>], halt |-> [e \in EpKeys |-> FALSE],
     ptr |-> [e \in EpKeys |-> [buf |-> BufNULL, off |-> 0]]]

MscInit ==
    [State |-> MSC_STATE_COMMAND_OUT, Status |-> MSC_STATUS_NORMAL,
     CBW |-> CbwNone,
     CSW |-> [dTag |-> 0, dDataResidue |-> 0, bStatus |-> MSC_CSW_CMD_PASSED],
     Sense |-> [Key |-> SCSI_SKEY_NO_SENSE, ASC |-> 0],
     Address |-> 0, RemLength |-> 0,
     Config |-> [InEpNum |-> 129, OutEpNum |-> 1, MaxLUN |-> 0]]

LuInit ==
    [Ready |-> TRUE, Writable |-> TRUE, BlockCount |-> MaxBlocks,
     BlockSize |-> USBD_MSC_BUFFER_SIZE, AddLength |-> SizeofInquiry - 4]

\* the handle of the NCM interface before it is used: static storage
InPageNone == [Sequence |-> 0, nth |-> NthNone, pt |-> NdpNone, dp |-> <<>>,
               pay |-> <<>>]

NcmInit ==
    [Connection |-> 0,
     Config |-> [OutEpNum |-> 1, InEpNum |-> 129, NotEpNum |-> 130],
     Out |-> [Data |-> [p \in {0, 1} |-> NtbNone],
              PT |-> [page |-> 0, at |-> 0], Page |-> 0, Dx |-> 0,
              State |-> [p \in {0, 1} |-> NTB_EMPTY]],
     In |-> [Data |-> [p \in {0, 1} |-> InPageNone],
             MaxSize |-> 0, RemSize |-> 0, Index |-> 0, Page |-> 0,
             DgCount |-> 0, SendState |-> NTB_EMPTY, FillState |-> NTB_EMPTY]]

\* the handles of the CDC, HID and DFU interfaces before they are used:
\* static storage
CdcInit ==
    [TransmitLength |-> 0, LineCoding |-> [DataBits |-> 0],
     Config |-> [InEpNum |-> 129, OutEpNum |-> 1, NotEpNum |-> 128 + 15]]

HidInit ==
    [IdleRate |-> 0, Request |-> 0,
     Report |-> [InputMaxSize |-> 8, OutputMaxSize |-> 8,
                 FeatureMaxSize |-> 8, Interval_ms |-> 20,
                 DescLength |-> 32],
     Config |-> [InEpNum |-> 129]]

DfuInit ==
    [State |-> 0, Status |-> 0, BlockNum |-> 0, BlockLength |-> 0,
     Address |-> 0, PollTimeout |-> 0, Tag |-> FALSE, reboot |-> FALSE]

\* the transfer that USBD_CDC_Transmit started last: its data pointer and
\* length, whether a zero-length packet sent after it has completed, and
\* the number of Transmitted callbacks since it was started
TxNone == [on |-> FALSE, data |-> NullPtr, len |-> 0, zlp |-> FALSE, cbs |-> 0]

ObsInit ==
    [ev |-> EvNone, ctl |-> CtlNone, cleared |-> {},
     lastCall |-> [ep |-> 0, ret |-> USBD_E_OK, afterClear |-> FALSE],
     bot |-> BotNone,
     rec |-> "none",
     seq |-> "off",
     walk |-> [pc |-> "idle", ndpIndex |-> 0, turn |-> 0],
     set |-> [pc |-> "idle", busy |-> FALSE, page |-> 0],
     buf |-> CtrlDataOff,
     wrote |-> CtrlDataOff,
     sub |-> <<>>,
     net |-> NetNone,
     mnt |-> [cls |-> "NULL", ret |-> USBD_E_OK, oob |-> FALSE],
     app |-> <<>>,
     tx  |-> TxNone]

Init ==
    /\ dev = DevInit
    /\ pd  = PdInit
    /\ msc = MscInit
    /\ lu  = LuInit
    /\ ncm = NcmInit
    /\ cdc = CdcInit
    /\ hid = HidInit
    /\ dfu = DfuInit
    /\ obs = ObsInit

\* the world a handler starts from; io is what the environment supplies to
\* the handler: the logical unit's answer, or the value received in CtrlData
World(io) ==
    [dev |-> dev, pd |-> pd, msc |-> msc, lu |-> lu, ncm |-> ncm,
     cdc |-> cdc, hid |-> hid, dfu |-> dfu,
     obs |-> [obs EXCEPT !.sub = <<>>, !.net.cb = FALSE, !.app = <<>>],
     ret |-> USBD_E_OK, io |-> io, data |-> NullPtr]

IoResults == {USBD_E_OK, USBD_E_ERROR}

----------------------------------------------------------------------------
(* Host and bus events on EP0 *)

Setup(dir, type, rcpt, req, val, idx, len) ==
    [Direction |-> dir, Type |-> type, Recipient |-> rcpt, Request |-> req,
     Value |-> val, Index |-> idx, Length |-> len]

IsBotReset(s) ==
    /\ s.Recipient = USB_REQ_RECIPIENT_INTERFACE
    /\ s.Type = USB_REQ_TYPE_CLASS
    /\ s.Request = MSC_BOT_RESET
    /\ s.Index = 0

IsSetConfig(s) ==
    /\ s.Recipient = USB_REQ_RECIPIENT_DEVICE
    /\ s.Type = USB_REQ_TYPE_STANDARD
    /\ s.Request = USB_REQ_SET_CONFIGURATION

IsClearHalt(s, e) ==
    /\ s.Recipient = USB_REQ_RECIPIENT_ENDPOINT
    /\ s.Type = USB_REQ_TYPE_STANDARD
    /\ s.Request = USB_REQ_CLEAR_FEATURE
    /\ s.Value = USB_FEATURE_EP_HALT
    /\ USBD_EpAddr2Ref(s.Index % 256) = e

\* observation of the reset recovery sequence of the MSC interface:
\* "error" after an invalid CBW, "reset" after BULK_ONLY_RESET, "in" / "out"
\* after the first CLEAR_FEATURE(HALT), "done" after the second
RecAfterSetup(rec, s, pre) ==
    LET clr(e) == IsClearHalt(s, e)
        bot    == IsBotReset(s)
    IN  CASE rec = "error" /\ bot      -> "reset"
          [] rec = "reset" /\ clr(129) -> "in"
          [] rec = "reset" /\ clr(1)   -> "out"
          [] rec = "in"    /\ clr(1)   -> "done"
          [] rec = "out"   /\ clr(129) -> "done"
          [] rec \in {"done", "answer"}
             /\ s.Recipient = USB_REQ_RECIPIENT_INTERFACE
             /\ s.Direction = USB_DIRECTION_IN -> rec
          [] OTHER -> "none"

\* The host's reset recovery sequence, followed from any state of the
\* interface: Bulk-Only Mass Storage Reset, then CLEAR_FEATURE(ENDPOINT_HALT)
\* of the bulk IN endpoint, then of the bulk OUT endpoint.  "off" is a run
\* that does not record the sequence.
SeqAfterSetup(seq, s) ==
    CASE seq = "off"                         -> "off"
      [] IsBotReset(s)                       -> "reset"
      [] seq = "reset" /\ IsClearHalt(s, 129) -> "in"
      [] seq = "in"    /\ IsClearHalt(s, 1)   -> "done"
      [] OTHER                               -> "none"

\* a SETUP packet arrives: the peripheral driver drops what was pending on
\* EP0, stores the packet in dev.Setup and calls USBD_SetupCallback
HostSetup(S, IO) ==
    /\ pd.on
    /\ \E s \in S, io \in IO :
         LET w0 == [World(io) EXCEPT
                      !.dev.Setup = s,
                      !.pd.xfer[0] = <<>>, !.pd.xfer[128] = <<>>,
                      !.pd.halt[0] = FALSE, !.pd.halt[128] = FALSE,
                      !.obs.ctl = [CtlNone EXCEPT !.active = TRUE],
                      !.obs.ev = [t |-> "setup", ep |-> 0, n |-> 0],
                      !.obs.rec = RecAfterSetup(obs.rec, s, dev),
                      !.obs.seq = SeqAfterSetup(obs.seq, s),
                      !.obs.bot = IF IsBotReset(s) \/ IsSetConfig(s)
                                  THEN BotNone ELSE @]
         IN  \E wn \in {USBD_SetupCallback(w0)} :
               /\ dev' = wn.dev
               /\ pd'  = wn.pd
               /\ msc' = wn.msc
               /\ lu'  = wn.lu
               /\ ncm' = wn.ncm
               /\ cdc' = wn.cdc
               /\ hid' = wn.hid
               /\ dfu' = wn.dfu
               /\ obs' = wn.obs

\* the transfer pending on EP0 IN completes on the bus; io is what the
\* application's callbacks return in the handler
Ep0InData(IO) ==
    /\ pd.on
    /\ pd.xfer[128] # <<>>
    /\ \E io \in IO :
       LET x  == pd.xfer[128][1]
           c  == obs.ctl
           c1 == IF x.stage = USB_EP_STATE_STATUS THEN [c EXCEPT !.status = 2]
                 ELSE IF x.data = BufNULL THEN [c EXCEPT !.zlps = Min(@ + 1, 2)]
                 ELSE [c EXCEPT !.sent = @ + x.len]
           w0 == [World(io) EXCEPT
                    !.pd.xfer[128] = <<>>,
                    !.pd.ptr[128].off = x.len,
                    !.obs.ctl = c1,
                    !.obs.ev = [t |-> "in", ep |-> 128, n |-> x.len]]
       IN  \E wn \in {USBD_EpInCallback(w0, 128)} :
             /\ dev' = wn.dev
             /\ pd'  = wn.pd
             /\ msc' = wn.msc
             /\ lu'  = wn.lu
             /\ ncm' = wn.ncm
             /\ cdc' = wn.cdc
             /\ hid' = wn.hid
             /\ dfu' = wn.dfu
             /\ obs' = wn.obs

Ep0InDone == Ep0InData({USBD_E_OK})

\* the host sends what EP0 OUT was armed for; io is the value the data
\* carries into CtrlData
Ep0OutData(IO) ==
    /\ pd.on
    /\ pd.xfer[0] # <<>>
    /\ \E io \in IO :
       LET x  == pd.xfer[0][1]
           w0 == [World(io) EXCEPT
                    !.pd.xfer[0] = <<>>,
                    !.pd.ptr[0].off = x.len,
                    !.dev.EP[0].Length = x.len,
                    !.obs.ctl.status = IF x.stage = USB_EP_STATE_STATUS
                                       THEN 2 ELSE @,
                    !.obs.buf = IF /\ @.by # "off"
                                   /\ x.data = BufCtrlData /\ x.len > 0
                                THEN [by |-> "host", blk |-> dev.Setup.Value]
                                ELSE @,
                    !.obs.ev = [t |-> "out", ep |-> 0, n |-> x.len]]
       IN  \E wn \in {USBD_EpOutCallback(w0, 0)} :
             /\ dev' = wn.dev
             /\ pd'  = wn.pd
             /\ msc' = wn.msc
             /\ lu'  = wn.lu
             /\ ncm' = wn.ncm
             /\ cdc' = wn.cdc
             /\ hid' = wn.hid
             /\ dfu' = wn.dfu
             /\ obs' = wn.obs

Ep0OutDone == Ep0OutData({USBD_E_OK})

\* bus reset signalled by the peripheral driver
BusReset ==
    LET w0 == [World(USBD_E_OK) EXCEPT
                 !.pd.on = TRUE, !.pd.addr = 0,
                 !.pd.xfer = [e \in EpKeys |-> <<>>],
                 !.pd.halt = [e \in EpKeys |-> FALSE],
                 !.obs.ctl = CtlNone,
                 !.obs.ev = [t |-> "reset", ep |-> 0, n |-> 0],
                 !.obs.rec = "none", !.obs.bot = BotNone]
    IN  \E wn \in {USBD_ResetCallback(w0)} :
          /\ dev' = wn.dev
          /\ pd'  = wn.pd
          /\ msc' = wn.msc
          /\ lu'  = wn.lu
          /\ ncm' = wn.ncm
          /\ cdc' = wn.cdc
          /\ hid' = wn.hid
          /\ dfu' = wn.dfu
          /\ obs' = wn.obs

\* the application detaches the device
AppDisconnect ==
    /\ pd.on
    /\ LET w0 == [World(USBD_E_OK) EXCEPT
                    !.obs.ctl = CtlNone,
                    !.obs.ev = [t |-> "disconnect", ep |-> 0, n |-> 0],
                    !.obs.rec = "none", !.obs.bot = BotNone]
       IN  \E wn \in {USBD_Disconnect(w0)} :
             /\ dev' = wn.dev
             /\ pd'  = wn.pd
             /\ msc' = wn.msc
             /\ lu'  = wn.lu
             /\ ncm' = wn.ncm
             /\ cdc' = wn.cdc
             /\ hid' = wn.hid
             /\ dfu' = wn.dfu
             /\ obs' = wn.obs

----------------------------------------------------------------------------
(* Host and bus events on the bulk endpoints of the MSC interface.  The    *)
(* host follows the Bulk-Only Transport order: it sends a command packet   *)
(* only when it waits for no CSW, nothing is pending on bulk IN and no     *)
(* bulk endpoint is halted, and it sends as many data bytes as the device  *)
(* asks for.                                                               *)

Cbw(tag, dlen, flags, op, flag, lba, len) ==
    [sig |-> TRUE, dTag |-> tag, dDataLength |-> dlen, bmFlags |-> flags,
     bLUN |-> 0, bCBLength |-> 10,
     CB |-> [op |-> op, flag |-> flag, lba |-> lba, len |-> len]]

Tags == 1 .. MaxTag

BlockLen == USBD_MSC_BUFFER_SIZE

\* READ10 / WRITE10 command blocks: transfers inside the medium with the
\* matching data length or with one block's, and one past the last block
RwCBWs(t, flags, op) ==
    UNION {{Cbw(t, dlen, flags, op, 0, 0, len) :
              dlen \in {len * BlockLen, BlockLen}} : len \in 0 .. MaxBlocks}
    \cup {Cbw(t, BlockLen, flags, op, 0, MaxBlocks, 1)}

ValidCBWs ==
    UNION {
      {Cbw(t, 0, 0, SCSI_TEST_UNIT_READY, 0, 0, 0),
       Cbw(t, BlockLen, 0, SCSI_TEST_UNIT_READY, 0, 0, 0),
       Cbw(t, BlockLen, 128, SCSI_TEST_UNIT_READY, 0, 0, 0),
       Cbw(t, SizeofSenseData, 128, SCSI_REQUEST_SENSE, 0, 0, SizeofSenseData),
       Cbw(t, SizeofInquiry, 128, SCSI_INQUIRY, 0, 0, SizeofInquiry),
       Cbw(t, BlockLen, 128, SCSI_INQUIRY, 0, 0, SizeofInquiry),
       Cbw(t, SizeofInquiry, 128, SCSI_INQUIRY, 0, 0, 0),
       Cbw(t, SizeofCapacity10, 128, SCSI_READ_CAPACITY10, 0, 0, 0),
       Cbw(t, SizeofModeSense, 128, SCSI_MODE_SENSE6, 0, 0, SizeofModeSense),
       Cbw(t, 0, 0, SCSI_START_STOP_UNIT, 0, 0, 0),
       Cbw(t, BlockLen, 0, SCSI_START_STOP_UNIT, 0, 0, 0),
       Cbw(t, 0, 0, 255, 0, 0, 0),
       Cbw(t, BlockLen, 128, 255, 0, 0, 0),
       Cbw(t, BlockLen, 0, SCSI_READ10, 0, 0, 1),
       Cbw(t, BlockLen, 128, SCSI_WRITE10, 0, 0, 1)}
      \cup RwCBWs(t, 128, SCSI_READ10)
      \cup RwCBWs(t, 0, SCSI_WRITE10)
      : t \in Tags}

\* packets the host may send where a CBW is expected: [cbw, n] is the
\* content and the number of bytes
MscPackets == {[cbw |-> c, n |-> SizeofCBW] : c \in ValidCBWs}

InvalidPackets ==
    {[cbw |-> [Cbw(1, 0, 0, SCSI_TEST_UNIT_READY, 0, 0, 0)
                 EXCEPT !.sig = FALSE], n |-> SizeofCBW],
     [cbw |-> [Cbw(1, 0, 0, SCSI_TEST_UNIT_READY, 0, 0, 0)
                 EXCEPT !.bLUN = 1], n |-> SizeofCBW],
     [cbw |-> [Cbw(1, 0, 0, SCSI_TEST_UNIT_READY, 0, 0, 0)
                 EXCEPT !.bCBLength = 0], n |-> SizeofCBW],
     [cbw |-> [Cbw(1, BlockLen, 128, SCSI_READ10, 0, 0, 1)
                 EXCEPT !.bCBLength = SizeofCB + 1], n |-> SizeofCBW],
     [cbw |-> Cbw(1, 0, 0, SCSI_TEST_UNIT_READY, 0, 0, 0),
      n |-> SizeofCBW - 1]}

\* the packets of the reset recovery specification: the invalid ones and
\* the commands a host sends after the recovery
RecPackets ==
    InvalidPackets
    \cup {[cbw |-> c, n |-> SizeofCBW] :
            c \in UNION {{Cbw(t, 0, 0, SCSI_TEST_UNIT_READY, 0, 0, 0),
                          Cbw(t, BlockLen, 0, SCSI_START_STOP_UNIT, 0, 0, 0),
                          Cbw(t, SizeofInquiry, 128, SCSI_INQUIRY, 0, 0,
                              SizeofInquiry),
                          Cbw(t, 0, 128, SCSI_READ10, 0, 0, 0),
                          Cbw(t, BlockLen, 128, SCSI_READ10, 0, 0, 1),
                          Cbw(t, BlockLen, 0, SCSI_WRITE10, 0, 0, 1)}
                         : t \in Tags}}

\* the host completes a control transfer before it moves data on the bulk
\* endpoints
Ep0Quiet == pd.xfer[0] = <<>> /\ pd.xfer[128] = <<>>

\* the host sends a command packet to the armed bulk OUT endpoint
HostCbw(P) ==
    /\ pd.on
    /\ Ep0Quiet
    /\ pd.xfer[1] # <<>>
    /\ ~pd.halt[1] /\ ~pd.halt[129]
    /\ pd.xfer[129] = <<>>
    /\ ~obs.bot.open
    /\ msc.State = MSC_STATE_COMMAND_OUT
    /\ \E p \in P, io \in IoResults :
         LET x  == pd.xfer[1][1]
             w0 == [World(io) EXCEPT
                      !.pd.xfer[1] = <<>>,
                      !.pd.ptr[1].off = Min(p.n, x.len),
                      !.msc.CBW = IF x.data = BufCBW THEN p.cbw ELSE @,
                      !.dev.EP[1].Length = Min(p.n, x.len),
                      !.obs.bot = [open |-> TRUE, xferred |-> 0,
                                   csws |-> 0, scsi |-> 0],
                      !.obs.ev = [t |-> "cbw", ep |-> 1, n |-> Min(p.n, x.len)]]
             w1 == [w0 EXCEPT !.obs.rec =
                      IF ~MSC_CbwValid(w0, 1) THEN "error"
                      ELSE IF obs.rec = "done" THEN "answer"
                      ELSE "none"]
         IN  \E wn \in {USBD_EpOutCallback(w1, 1)} :
               /\ dev' = wn.dev
               /\ pd'  = wn.pd
               /\ msc' = wn.msc
               /\ lu'  = wn.lu
               /\ ncm' = wn.ncm
               /\ cdc' = wn.cdc
               /\ hid' = wn.hid
               /\ dfu' = wn.dfu
               /\ obs' = wn.obs

\* the host sends the data the bulk OUT endpoint was armed for
HostDataOut ==
    /\ pd.on
    /\ Ep0Quiet
    /\ pd.xfer[1] # <<>>
    /\ ~pd.halt[1]
    /\ msc.State = MSC_STATE_DATA_OUT
    /\ pd.xfer[1][1].data = BufBuffer
    /\ \E io \in IoResults :
         LET x  == pd.xfer[1][1]
             w0 == [World(io) EXCEPT
                      !.pd.xfer[1] = <<>>,
                      !.pd.ptr[1].off = x.len,
                      !.dev.EP[1].Length = x.len,
                      !.obs.bot.xferred = @ + x.len,
                      !.obs.ev = [t |-> "out", ep |-> 1, n |-> 0]]
         IN  \E wn \in {USBD_EpOutCallback(w0, 1)} :
               /\ dev' = wn.dev
               /\ pd'  = wn.pd
               /\ msc' = wn.msc
               /\ lu'  = wn.lu
               /\ ncm' = wn.ncm
               /\ cdc' = wn.cdc
               /\ hid' = wn.hid
               /\ dfu' = wn.dfu
               /\ obs' = wn.obs

\* the host reads what the bulk IN endpoint was armed with
BulkInDone ==
    /\ pd.on
    /\ Ep0Quiet
    /\ pd.xfer[129] # <<>>
    /\ ~pd.halt[129]
    /\ \E io \in IoResults :
         LET x  == pd.xfer[129][1]
             w0 == [World(io) EXCEPT
                      !.pd.xfer[129] = <<>>,
                      !.pd.ptr[129].off = x.len,
                      !.obs.bot = IF x.data = BufCSW THEN BotNone
                                  ELSE IF x.data = BufBuffer
                                  THEN [@ EXCEPT !.xferred = @ + x.len]
                                  ELSE @,
                      !.obs.rec = IF x.data = BufCSW THEN "none" ELSE @,
                      !.obs.ev = [t |-> "in", ep |-> 129, n |-> 0]]
         IN  \E wn \in {USBD_EpInCallback(w0, 129)} :
               /\ dev' = wn.dev
               /\ pd'  = wn.pd
               /\ msc' = wn.msc
               /\ lu'  = wn.lu
               /\ ncm' = wn.ncm
               /\ cdc' = wn.cdc
               /\ hid' = wn.hid
               /\ dfu' = wn.dfu
               /\ obs' = wn.obs

\* the medium is removed, inserted or write protected
LuChange ==
    /\ ~obs.bot.open
    /\ \E r \in BOOLEAN, m \in BOOLEAN :
         /\ r \/ m
         /\ lu' = [lu EXCEPT !.Ready = r, !.Writable = m]
         /\ lu' # lu
    /\ obs' = [obs EXCEPT !.ev = [t |-> "lu", ep |-> 0, n |-> 0]]
    /\ UNCHANGED <<dev, pd, msc, ncm, cdc, hid, dfu>>

----------------------------------------------------------------------------
(* Application calls on a data endpoint *)

AppLens == {0, USB_EP_BULK_FS_MPS}

AppEpSend ==
    \E len \in AppLens :
      LET w0 == [World(USBD_E_OK) EXCEPT
                   !.obs.ev = [t |-> "send", ep |-> 129, n |-> len]]
      IN  \E wn \in {USBD_EpSend(w0, 129, BufApp, len)} :
            /\ dev' = wn.dev
            /\ pd'  = wn.pd
            /\ msc' = wn.msc
            /\ lu'  = wn.lu
            /\ ncm' = wn.ncm
            /\ cdc' = wn.cdc
            /\ hid' = wn.hid
            /\ dfu' = wn.dfu
            /\ obs' = wn.obs

AppEpReceive ==
    \E len \in AppLens :
      LET w0 == [World(USBD_E_OK) EXCEPT
                   !.obs.ev = [t |-> "receive", ep |-> 1, n |-> len]]
      IN  \E wn \in {USBD_EpReceive(w0, 1, BufApp, len)} :
            /\ dev' = wn.dev
            /\ pd'  = wn.pd
            /\ msc' = wn.msc
            /\ lu'  = wn.lu
            /\ ncm' = wn.ncm
            /\ cdc' = wn.cdc
            /\ hid' = wn.hid
            /\ dfu' = wn.dfu
            /\ obs' = wn.obs

----------------------------------------------------------------------------
(* Requests of the host *)

STD == USB_REQ_TYPE_STANDARD
DEV == USB_REQ_RECIPIENT_DEVICE
ITF == USB_REQ_RECIPIENT_INTERFACE
EPT == USB_REQ_RECIPIENT_ENDPOINT
H2D == USB_DIRECTION_OUT
D2H == USB_DIRECTION_IN

\* wLength values: none, shorter than any descriptor, one EP0 packet, more
\* than any descriptor
Lengths == {0, 1, USB_EP0_FS_MAX_PACKET_SIZE, 255}

CtlSetups ==
    {Setup(D2H, STD, DEV, USB_REQ_GET_DESCRIPTOR, v, 0, l) :
        v \in {256 * USB_DESC_TYPE_DEVICE, 256 * USB_DESC_TYPE_CONFIGURATION,
               256 * USB_DESC_TYPE_STRING + USBD_ISTR_VENDOR,
               256 * USB_DESC_TYPE_STRING + 255},
        l \in Lengths}
    \cup {Setup(H2D, STD, DEV, USB_REQ_GET_DESCRIPTOR,
                256 * USB_DESC_TYPE_DEVICE, 0, 1)}
    \cup {Setup(H2D, STD, DEV, USB_REQ_SET_ADDRESS, 5, 0, l) : l \in {0, 1}}
    \cup {Setup(H2D, STD, DEV, USB_REQ_SET_CONFIGURATION, v, 0, l) :
            v \in {0, 1, 2, 257}, l \in {0, 1}}
    \cup {Setup(D2H, STD, DEV, USB_REQ_GET_CONFIGURATION, 0, 0, l) : l \in {0, 1}}
    \cup {Setup(D2H, STD, DEV, USB_REQ_GET_STATUS, 0, 0, 2)}
    \cup {Setup(H2D, STD, DEV, r, v, 0, l) :
            r \in {USB_REQ_SET_FEATURE, USB_REQ_CLEAR_FEATURE},
            v \in {USB_FEATURE_REMOTE_WAKEUP, 0}, l \in {0, 1}}
    \cup {Setup(H2D, USB_REQ_TYPE_VENDOR, DEV, 1, 0, 0, 0),
          Setup(H2D, STD, USB_REQ_RECIPIENT_OTHER, USB_REQ_SET_FEATURE, 0, 0, 0)}
    \cup {Setup(D2H, STD, ITF, USB_REQ_GET_INTERFACE, 0, i, 1) : i \in {0, 1}}
    \cup {Setup(H2D, STD, ITF, USB_REQ_SET_INTERFACE, v, 0, l) :
            v \in {0, 1}, l \in {0, 1}}
    \cup {Setup(H2D, USB_REQ_TYPE_CLASS, ITF, MSC_BOT_RESET, 0, 0, l) :
            l \in {0, 1}}
    \cup {Setup(D2H, USB_REQ_TYPE_CLASS, ITF, MSC_BOT_GET_MAX_LUN, 0, 0, 1),
          Setup(H2D, USB_REQ_TYPE_CLASS, ITF, 1, 0, 0, 0)}
    \cup {Setup(H2D, STD, EPT, r, USB_FEATURE_EP_HALT, 129, l) :
            r \in {USB_REQ_SET_FEATURE, USB_REQ_CLEAR_FEATURE}, l \in {0, 1}}
    \cup {Setup(D2H, STD, EPT, USB_REQ_GET_STATUS, 0, 129, 2)}

\* requests that halt and resume endpoints and change the configuration;
\* 0x82 is an endpoint no interface uses, 0x80 and 0x88 are refused
HaltSetups ==
    {Setup(H2D, STD, DEV, USB_REQ_SET_CONFIGURATION, v, 0, 0) : v \in {0, 1}}
    \cup {Setup(H2D, USB_REQ_TYPE_CLASS, ITF, MSC_BOT_RESET, 0, 0, 0)}
    \cup {Setup(H2D, STD, EPT, r, USB_FEATURE_EP_HALT, i, 0) :
            r \in {USB_REQ_SET_FEATURE, USB_REQ_CLEAR_FEATURE},
            i \in {129, 1, 130}}
    \cup {Setup(H2D, STD, EPT, USB_REQ_SET_FEATURE, USB_FEATURE_EP_HALT, i, 0) :
            i \in {128, 136}}
    \cup {Setup(D2H, STD, EPT, USB_REQ_GET_STATUS, 0, 129, 2)}

\* the requests of a host driving the MSC interface: it configures the
\* device and resumes the bulk endpoints
MscSetups ==
    {Setup(H2D, STD, DEV, USB_REQ_SET_CONFIGURATION, 1, 0, 0),
     Setup(H2D, STD, EPT, USB_REQ_CLEAR_FEATURE, USB_FEATURE_EP_HALT, 129, 0),
     Setup(H2D, STD, EPT, USB_REQ_CLEAR_FEATURE, USB_FEATURE_EP_HALT, 1, 0)}

\* the requests of the reset recovery
RecSetups ==
    MscSetups
    \cup {Setup(H2D, USB_REQ_TYPE_CLASS, ITF, MSC_BOT_RESET, 0, 0, 0)}

----------------------------------------------------------------------------
(* Specifications *)

\* the device stack under every request of the host on EP0
HostRequest == HostSetup(CtlSetups, {USBD_E_OK})

Next ==
    \/ BusReset
    \/ HostRequest
    \/ Ep0InDone
    \/ Ep0OutDone

Spec == Init /\ [][Next]_vars

\* the application calls USBD_CtrlSendData / USBD_CtrlReceiveData on its
\* own, at any time; obs.ev.n is the value returned, obs.ctl.calls counts
\* the calls since the last SETUP packet
CtrlLens == {1, USB_EP0_FS_MAX_PACKET_SIZE}

AppCtrlSendData ==
    /\ obs.ctl.calls < MaxCalls
    /\ \E len \in CtrlLens :
      LET w0 == [World(USBD_E_OK) EXCEPT !.obs.ctl.calls = @ + 1] IN
      \E wn \in {USBD_CtrlSendData(w0, BufCtrlData, len)} :
        /\ dev' = wn.dev
        /\ pd'  = wn.pd
        /\ msc' = wn.msc
        /\ lu'  = wn.lu
        /\ ncm' = wn.ncm
        /\ cdc' = wn.cdc
        /\ hid' = wn.hid
        /\ dfu' = wn.dfu
        /\ obs' = [wn.obs EXCEPT !.ev = [t |-> "ctrl_send", ep |-> 128,
                                         n |-> wn.ret]]

AppCtrlReceiveData ==
    /\ obs.ctl.calls < MaxCalls
    /\ \E len \in CtrlLens :
      LET w0 == [World(USBD_E_OK) EXCEPT !.obs.ctl.calls = @ + 1] IN
      \E wn \in {USBD_CtrlReceiveData(w0, BufCtrlData, len)} :
        /\ dev' = wn.dev
        /\ pd'  = wn.pd
        /\ msc' = wn.msc
        /\ lu'  = wn.lu
        /\ ncm' = wn.ncm
        /\ cdc' = wn.cdc
        /\ hid' = wn.hid
        /\ dfu' = wn.dfu
        /\ obs' = [wn.obs EXCEPT !.ev = [t |-> "ctrl_recv", ep |-> 0,
                                         n |-> wn.ret]]

\* requests of the host while the application makes these calls: with an
\* IN Data stage, without a Data stage, accepted with wLength > 0 though no
\* Data stage is armed, and refused
CtlAppSetups ==
    {Setup(D2H, STD, DEV, USB_REQ_GET_DESCRIPTOR, 256 * USB_DESC_TYPE_DEVICE,
           0, l) : l \in {1, 255}}
    \cup {Setup(H2D, STD, DEV, USB_REQ_CLEAR_FEATURE,
                USB_FEATURE_REMOTE_WAKEUP, 0, l) : l \in {0, 1}}
    \cup {Setup(H2D, STD, DEV, USB_REQ_SET_CONFIGURATION, 1, 0, 0),
          Setup(D2H, STD, ITF, USB_REQ_GET_INTERFACE, 0, 0, 1),
          Setup(H2D, USB_REQ_TYPE_VENDOR, DEV, 1, 0, 0, 0)}

CtlAppRequest == HostSetup(CtlAppSetups, {USBD_E_OK})

NextCtlApp ==
    \/ BusReset
    \/ CtlAppRequest
    \/ Ep0InDone
    \/ Ep0OutDone
    \/ AppCtrlSendData
    \/ AppCtrlReceiveData

SpecCtlApp == Init /\ [][NextCtlApp]_vars

\* the device under SET_ADDRESS requests: two addresses, one with bit 7 set,
\* with wIndex and wLength zero and not zero, sent to the unconfigured and
\* to the configured device, between other requests
AddrSetups ==
    {Setup(H2D, STD, DEV, USB_REQ_SET_ADDRESS, v, i, l) :
        v \in {5, 128 + 6}, i \in {0, 1}, l \in {0, 1}}
    \cup {Setup(H2D, STD, DEV, USB_REQ_SET_CONFIGURATION, v, 0, 0) :
            v \in {0, 1}}
    \cup {Setup(D2H, STD, DEV, USB_REQ_GET_DESCRIPTOR,
                256 * USB_DESC_TYPE_DEVICE, 0, USB_EP0_FS_MAX_PACKET_SIZE),
          Setup(H2D, USB_REQ_TYPE_CLASS, ITF, USB_REQ_SET_ADDRESS, 5, 0, 0)}

AddrRequest == HostSetup(AddrSetups, {USBD_E_OK})

NextAddr ==
    \/ BusReset
    \/ AddrRequest
    \/ Ep0InDone
    \/ Ep0OutDone

SpecAddr == Init /\ [][NextAddr]_vars

\* the endpoints under halt requests, configuration changes, bus resets and
\* the application detaching the device
HaltRequest == HostSetup(HaltSetups, {USBD_E_OK})

NextHalt ==
    \/ BusReset
    \/ AppDisconnect
    \/ HaltRequest
    \/ Ep0InDone
    \/ Ep0OutDone

SpecHalt == Init /\ [][NextHalt]_vars

\* the MSC interface under the commands of the host
PowerOnReset == ~pd.on /\ BusReset

\* the host configures an unconfigured device and resumes a halted endpoint
MscWanted(s) ==
    IF IsSetConfig(s) THEN dev.ConfigSelector = 0
    ELSE \E e \in MscEps : IsClearHalt(s, e) /\ pd.halt[e]

MscRequest == HostSetup({s \in MscSetups : MscWanted(s)}, IoResults)

MscCommand == HostCbw(MscPackets)

NextMsc ==
    \/ PowerOnReset
    \/ MscRequest
    \/ Ep0InDone
    \/ MscCommand
    \/ HostDataOut
    \/ BulkInDone
    \/ LuChange

SpecMsc == Init /\ [][NextMsc]_vars

\* the MSC interface under invalid command packets and the reset recovery
RecRequest == HostSetup(RecSetups, IoResults)

RecCommand == HostCbw(RecPackets)

NextRec ==
    \/ PowerOnReset
    \/ RecRequest
    \/ Ep0InDone
    \/ RecCommand
    \/ HostDataOut
    \/ BulkInDone

SpecRec == Init /\ [][NextRec]_vars

\* ep_send / ep_receive applied to an endpoint in any state of any type
EpStates == USB_EP_STATE_CLOSED .. USB_EP_STATE_STATUS

EpTypes == USB_EP_TYPE_CONTROL .. USB_EP_TYPE_INTERRUPT

InitEp ==
    /\ \E si \in EpStates, ti \in EpTypes, so \in EpStates, to \in EpTypes :
         dev = [DevInit EXCEPT !.EP[129].State = si, !.EP[129].Type = ti,
                               !.EP[1].State = so, !.EP[1].Type = to]
    /\ pd  = [PdInit EXCEPT !.on = TRUE]
    /\ msc = MscInit
    /\ lu  = LuInit
    /\ ncm = NcmInit
    /\ cdc = CdcInit
    /\ hid = HidInit
    /\ dfu = DfuInit
    /\ obs = ObsInit

NextEp ==
    \/ AppEpSend
    \/ AppEpReceive

SpecEp == InitEp /\ [][NextEp]_vars

----------------------------------------------------------------------------
(* The device with the NCM interface mounted: USBD_Init, then              *)
(* USBD_NCM_MountInterface with bulk OUT 0x01, bulk IN 0x81 and the        *)
(* notification endpoint 0x82, then USBD_Connect.  The handle takes the    *)
(* interface slots 0 and 1.  The specifications of the NCM interface start *)
(* from the enumerated device: bus reset, SET_CONFIGURATION(1) and         *)
(* SET_INTERFACE(alternate setting 1 of interface 1), each with its Status *)
(* stage completed.                                                        *)

NcmEps == {129, 1, 130}

DevInitNcm ==
    [DevInit EXCEPT
       !.EP = [e \in EpKeys |->
                 [State |-> USB_EP_STATE_CLOSED,
                  Type  |-> IF e \in {129, 1} THEN USB_EP_TYPE_BULK
                            ELSE IF e = 130 THEN USB_EP_TYPE_INTERRUPT
                            ELSE USB_EP_TYPE_CONTROL,
                  MaxPacketSize |->
                     IF e \in {0, 128} THEN USB_EP0_FS_MAX_PACKET_SIZE
                     ELSE IF e \in {129, 1} THEN USB_EP_BULK_FS_MPS
                     ELSE IF e = 130 THEN NCM_NOT_PACKET_SIZE
                     ELSE 0,
                  IfNum |-> 0, Length |-> 0]],
       !.IfCount = 2,
       !.If = [n \in 0 .. USBD_MAX_IF_COUNT - 1 |-> "NCM"],
       !.AltCount = [n \in 0 .. USBD_MAX_IF_COUNT - 1 |-> 2]]

\* a request without Data stage, from the SETUP packet to the completion of
\* the Status stage
NcmSetupDone(w, s) ==
    Bind(USBD_SetupCallback([w EXCEPT !.dev.Setup = s]), LAMBDA w1 :
    USBD_EpInCallback([w1 EXCEPT !.pd.xfer[128] = <<>>], 128))

NcmEnumerated ==
    Bind(USBD_ResetCallback(
           [dev |-> DevInitNcm, pd |-> [PdInit EXCEPT !.on = TRUE],
            msc |-> MscInit, lu |-> LuInit, ncm |-> NcmInit,
            cdc |-> CdcInit, hid |-> HidInit, dfu |-> DfuInit, obs |-> ObsInit,
            ret |-> USBD_E_OK, io |-> USBD_E_OK, data |-> NullPtr]),
         LAMBDA w1 :
    Bind(NcmSetupDone(w1, Setup(USB_DIRECTION_OUT, USB_REQ_TYPE_STANDARD,
                                USB_REQ_RECIPIENT_DEVICE,
                                USB_REQ_SET_CONFIGURATION, 1, 0, 0)),
         LAMBDA w2 :
    NcmSetupDone(w2, Setup(USB_DIRECTION_OUT, USB_REQ_TYPE_STANDARD,
                           USB_REQ_RECIPIENT_INTERFACE,
                           USB_REQ_SET_INTERFACE, 1, 1, 0))))

InitNcm ==
    /\ dev = NcmEnumerated.dev
    /\ pd  = NcmEnumerated.pd
    /\ msc = MscInit
    /\ lu  = LuInit
    /\ ncm = NcmEnumerated.ncm
    /\ cdc = CdcInit
    /\ hid = HidInit
    /\ dfu = DfuInit
    /\ obs = ObsInit

----------------------------------------------------------------------------
(* The application and the host on the NCM interface *)

\* USBD_NCM_Connect called by the application
AppNcmConnect ==
    /\ pd.on
    /\ LET w0 == [World(USBD_E_OK) EXCEPT
                    !.obs.ev = [t |-> "connect", ep |-> 0, n |-> 0]]
       IN  \E wn \in {USBD_NCM_Connect(w0)} :
             /\ dev' = wn.dev
             /\ pd'  = wn.pd
             /\ msc' = wn.msc
             /\ lu'  = wn.lu
             /\ ncm' = wn.ncm
             /\ cdc' = wn.cdc
             /\ hid' = wn.hid
             /\ dfu' = wn.dfu
             /\ obs' = wn.obs

\* the notification pending on the interrupt endpoint is read by the host
NcmNotDone ==
    /\ pd.on
    /\ pd.xfer[130] # <<>>
    /\ ~pd.halt[130]
    /\ LET x  == pd.xfer[130][1]
           w0 == [World(USBD_E_OK) EXCEPT
                    !.pd.xfer[130] = <<>>,
                    !.pd.ptr[130].off = x.len,
                    !.obs.ev = [t |-> "in", ep |-> 130, n |-> x.len]]
       IN  \E wn \in {USBD_EpInCallback(w0, 130)} :
             /\ dev' = wn.dev
             /\ pd'  = wn.pd
             /\ msc' = wn.msc
             /\ lu'  = wn.lu
             /\ ncm' = wn.ncm
             /\ cdc' = wn.cdc
             /\ hid' = wn.hid
             /\ dfu' = wn.dfu
             /\ obs' = wn.obs

Dg(index, length) == [Index |-> index, Length |-> length]

Ndp(at, sig, length, next, dgs) ==
    [at |-> at, Signature |-> sig, Length |-> length, NextNdpIndex |-> next,
     Datagram |-> dgs]

Ntb(sig, hlen, blen, ndpIndex, ndps) ==
    [id |-> 0, Signature |-> sig, HeaderLength |-> hlen, BlockLength |-> blen,
     NdpIndex |-> ndpIndex, Ndp |-> ndps]

\* blocks that pass the verification: one datagram behind the NDP; two
\* datagrams in front of the NDP (the layout ncm_sendNTB produces); two NDPs
\* chained, the second in front of the first
ValidNtbs ==
    {Ntb(TRUE, SizeofNTH16, 88, 12,
         <<Ndp(12, TRUE, 16, 0, <<Dg(28, 60), DgNone>>)>>),
     Ntb(TRUE, SizeofNTH16, 196, 176,
         <<Ndp(176, TRUE, 20, 0, <<Dg(12, 100), Dg(112, 61), DgNone>>)>>),
     Ntb(TRUE, SizeofNTH16, 124, 28,
         <<Ndp(28, TRUE, 16, 12, <<Dg(44, 40), DgNone>>),
           Ndp(12, TRUE, 16, 0, <<Dg(84, 40), DgNone>>)>>)}

\* blocks that fail it: NTH16 signature, header length, block length other
\* than the received length, NDP index inside the NTH16, NDP index behind
\* the block, NDP16 signature, NDP16 length, and a chained NDP that fails
InvalidNtbs ==
    {Ntb(FALSE, SizeofNTH16, 88, 12,
         <<Ndp(12, TRUE, 16, 0, <<Dg(28, 60), DgNone>>)>>),
     Ntb(TRUE, 16, 88, 12,
         <<Ndp(12, TRUE, 16, 0, <<Dg(28, 60), DgNone>>)>>),
     Ntb(TRUE, SizeofNTH16, 92, 12,
         <<Ndp(12, TRUE, 16, 0, <<Dg(28, 60), DgNone>>)>>),
     Ntb(TRUE, SizeofNTH16, 88, 8,
         <<Ndp(8, TRUE, 16, 0, <<Dg(28, 60), DgNone>>)>>),
     Ntb(TRUE, SizeofNTH16, 88, 88,
         <<Ndp(88, TRUE, 16, 0, <<Dg(28, 60), DgNone>>)>>),
     Ntb(TRUE, SizeofNTH16, 88, 12,
         <<Ndp(12, FALSE, 16, 0, <<Dg(28, 60), DgNone>>)>>),
     Ntb(TRUE, SizeofNTH16, 88, 12,
         <<Ndp(12, TRUE, 12, 0, <<Dg(28, 60), DgNone>>)>>),
     Ntb(TRUE, SizeofNTH16, 124, 28,
         <<Ndp(28, TRUE, 16, 12, <<Dg(44, 40), DgNone>>),
           Ndp(12, FALSE, 16, 0, <<Dg(84, 40), DgNone>>)>>)}

\* what the host sends on bulk OUT: the block, the bytes on the wire, and
\* whether the block is well-formed
NcmPackets ==
    {[ntb |-> b, n |-> b.BlockLength, ok |-> TRUE] : b \in ValidNtbs}
    \cup {[ntb |-> b, n |-> IF b.BlockLength = 92 THEN 88 ELSE b.BlockLength,
           ok |-> FALSE] : b \in InvalidNtbs}

RECURSIVE NdpEntries(_, _)
\* the entries of a datagram table in front of its terminator
NdpEntries(dgs, i) ==
    IF i > Len(dgs) \/ dgs[i].Index = 0 THEN <<>>
    ELSE <<dgs[i]>> \o NdpEntries(dgs, i + 1)

RECURSIVE NtbDatagrams(_, _)
\* the datagrams of a well-formed block along its NDP chain from ndpIndex
NtbDatagrams(b, ndpIndex) ==
    LET pt == NdpAt(b, ndpIndex)
        ds == [i \in 1 .. Len(NdpEntries(pt.Datagram, 1)) |->
                 [id |-> b.id, Index |-> pt.Datagram[i].Index,
                  Length |-> pt.Datagram[i].Length, null |-> FALSE]]
    IN  IF pt.NextNdpIndex = 0 THEN ds
        ELSE ds \o NtbDatagrams(b, pt.NextNdpIndex)

\* the host sends a block to the armed bulk OUT endpoint
HostNtb(P) ==
    /\ pd.on
    /\ pd.xfer[1] # <<>>
    /\ ~pd.halt[1]
    /\ obs.net.nsent < MaxNtb
    /\ \E p \in P :
         LET x    == pd.xfer[1][1]
             page == IF x.data = BufOut(0) THEN 0 ELSE 1
             n    == Min(p.n, x.len)
             b    == [p.ntb EXCEPT !.id = obs.net.nsent + 1]
             w0   == [World(USBD_E_OK) EXCEPT
                        !.pd.xfer[1] = <<>>,
                        !.pd.ptr[1].off = n,
                        !.dev.EP[1].Length = n,
                        !.ncm.Out.Data[page] = b,
                        !.obs.net.nsent = @ + 1,
                        !.obs.net.exp = IF p.ok
                                        THEN @ \o NtbDatagrams(b, b.NdpIndex)
                                        ELSE @,
                        !.obs.net.rx = [id |-> b.id, page |-> page,
                                        ok |-> p.ok],
                        !.obs.net.drop = IF p.ok THEN @ ELSE @ \cup {b.id},
                        !.obs.ev = [t |-> "ntb", ep |-> 1, n |-> n]]
         IN  \E wn \in {USBD_EpOutCallback(w0, 1)} :
               /\ dev' = wn.dev
               /\ pd'  = wn.pd
               /\ msc' = wn.msc
               /\ lu'  = wn.lu
               /\ ncm' = wn.ncm
               /\ cdc' = wn.cdc
               /\ hid' = wn.hid
               /\ dfu' = wn.dfu
               /\ obs' = wn.obs

\* USBD_NCM_GetDatagram called by the application; obs.net.bad notes a
\* result other than the first datagram not yet seen
AppGetDatagram ==
    /\ pd.on
    /\ LET w0 == [World(USBD_E_OK) EXCEPT
                    !.obs.ev = [t |-> "get", ep |-> 0, n |-> 0]]
       IN  \E w1 \in {USBD_NCM_GetDatagram(w0)} :
           \E wn \in {IF w1.obs.net.got.null THEN w1
                      ELSE IF w1.obs.net.exp # <<>>
                              /\ Head(w1.obs.net.exp) = w1.obs.net.got
                      THEN [w1 EXCEPT !.obs.net.exp = Tail(@)]
                      ELSE [w1 EXCEPT !.obs.net.bad = TRUE]} :
             /\ dev' = wn.dev
             /\ pd'  = wn.pd
             /\ msc' = wn.msc
             /\ lu'  = wn.lu
             /\ ncm' = wn.ncm
             /\ cdc' = wn.cdc
             /\ hid' = wn.hid
             /\ dfu' = wn.dfu
             /\ obs' = wn.obs

\* halt and resume requests for the endpoints of the NCM interface
NcmHaltSetups(E) ==
    {Setup(USB_DIRECTION_OUT, USB_REQ_TYPE_STANDARD,
           USB_REQ_RECIPIENT_ENDPOINT, r, USB_FEATURE_EP_HALT, i, 0) :
        r \in {USB_REQ_SET_FEATURE, USB_REQ_CLEAR_FEATURE}, i \in E}

\* the host sends one of them; obs.net.nhalt counts these requests
NcmHaltRequest(E) ==
    /\ pd.on
    /\ obs.net.nhalt < MaxHalts
    /\ \E s \in NcmHaltSetups(E) :
         LET w0 == [World(USBD_E_OK) EXCEPT
                      !.dev.Setup = s,
                      !.pd.xfer[0] = <<>>, !.pd.xfer[128] = <<>>,
                      !.pd.halt[0] = FALSE, !.pd.halt[128] = FALSE,
                      !.obs.ctl = [CtlNone EXCEPT !.active = TRUE],
                      !.obs.net.nhalt = @ + 1,
                      !.obs.ev = [t |-> "setup", ep |-> 0, n |-> 0]]
         IN  \E wn \in {USBD_SetupCallback(w0)} :
               /\ dev' = wn.dev
               /\ pd'  = wn.pd
               /\ msc' = wn.msc
               /\ lu'  = wn.lu
               /\ ncm' = wn.ncm
               /\ cdc' = wn.cdc
               /\ hid' = wn.hid
               /\ dfu' = wn.dfu
               /\ obs' = wn.obs

NcmRxHaltRequest == NcmHaltRequest({1})

\* the receive path: blocks from the host and get_datagram calls
NextNcmRx ==
    \/ AppNcmConnect
    \/ HostNtb(NcmPackets)
    \/ AppGetDatagram

SpecNcmRx == InitNcm /\ [][NextNcmRx]_vars

\* the receive path with halt and resume requests of the host
NextNcmRxHalt ==
    \/ AppNcmConnect
    \/ HostNtb(NcmPackets)
    \/ AppGetDatagram
    \/ NcmRxHaltRequest
    \/ Ep0InDone

SpecNcmRxHalt == InitNcm /\ [][NextNcmRxHalt]_vars

\* datagram lengths the application sends: one that needs padding, a
\* multiple of four, the largest segment, and one beyond it
DgLens == {61, 100, NCM_MAX_SEGMENT_SIZE, NCM_MAX_SEGMENT_SIZE + 1}

\* USBD_NCM_AllocDatagram called by the application, which copies the
\* datagram to the pointer returned
AppAllocDatagram(L) ==
    /\ pd.on
    /\ obs.net.ndg < MaxDgs
    /\ \E length \in L :
         LET w0 == [World(USBD_E_OK) EXCEPT
                      !.obs.net.ndg = @ + 1,
                      !.obs.ev = [t |-> "alloc", ep |-> 0, n |-> length]]
         IN  \E w1 \in {USBD_NCM_AllocDatagram(w0, length)} :
             \E wn \in {IF w1.data # NullPtr
                        THEN ncm_memcpy(w1, w1.data, length) ELSE w1} :
               /\ dev' = wn.dev
               /\ pd'  = wn.pd
               /\ msc' = wn.msc
               /\ lu'  = wn.lu
               /\ ncm' = wn.ncm
               /\ cdc' = wn.cdc
               /\ hid' = wn.hid
               /\ dfu' = wn.dfu
               /\ obs' = wn.obs

\* USBD_NCM_SetDatagram called by the application after it has copied the
\* datagram
AppSetDatagram ==
    /\ pd.on
    /\ obs.net.pend # <<>>
    /\ LET w0 == [World(USBD_E_OK) EXCEPT
                    !.obs.ev = [t |-> "set", ep |-> 0, n |-> 0]]
       IN  \E wn \in {USBD_NCM_SetDatagram(w0)} :
             /\ dev' = wn.dev
             /\ pd'  = wn.pd
             /\ msc' = wn.msc
             /\ lu'  = wn.lu
             /\ ncm' = wn.ncm
             /\ cdc' = wn.cdc
             /\ hid' = wn.hid
             /\ dfu' = wn.dfu
             /\ obs' = wn.obs

\* USBD_NCM_PutDatagram called by the application
AppPutDatagram(L) ==
    /\ pd.on
    /\ obs.net.ndg < MaxDgs
    /\ \E length \in L :
         LET w0 == [World(USBD_E_OK) EXCEPT
                      !.obs.net.ndg = @ + 1,
                      !.obs.ev = [t |-> "put", ep |-> 0, n |-> length]]
         IN  \E wn \in {USBD_NCM_PutDatagram(w0, length)} :
               /\ dev' = wn.dev
               /\ pd'  = wn.pd
               /\ msc' = wn.msc
               /\ lu'  = wn.lu
               /\ ncm' = wn.ncm
               /\ cdc' = wn.cdc
               /\ hid' = wn.hid
               /\ dfu' = wn.dfu
               /\ obs' = wn.obs

\* the host reads the block pending on the bulk IN endpoint
NcmInDone ==
    /\ pd.on
    /\ pd.xfer[129] # <<>>
    /\ ~pd.halt[129]
    /\ LET x  == pd.xfer[129][1]
           w0 == [World(USBD_E_OK) EXCEPT
                    !.pd.xfer[129] = <<>>,
                    !.pd.ptr[129].off = x.len,
                    !.obs.ev = [t |-> "in", ep |-> 129, n |-> x.len]]
       IN  \E wn \in {USBD_EpInCallback(w0, 129)} :
             /\ dev' = wn.dev
             /\ pd'  = wn.pd
             /\ msc' = wn.msc
             /\ lu'  = wn.lu
             /\ ncm' = wn.ncm
             /\ cdc' = wn.cdc
             /\ hid' = wn.hid
             /\ dfu' = wn.dfu
             /\ obs' = wn.obs

\* the transmit path: datagrams of the application, completions on the
\* bulk IN and notification endpoints
NextNcmTx ==
    \/ AppNcmConnect
    \/ NcmNotDone
    \/ AppAllocDatagram(DgLens)
    \/ AppSetDatagram
    \/ AppPutDatagram(DgLens)
    \/ NcmInDone

SpecNcmTx == InitNcm /\ [][NextNcmTx]_vars

NcmTxHaltRequest == NcmHaltRequest({129, 130})

\* the transmit path with halt and resume requests of the host
NextNcmTxHalt ==
    \/ AppNcmConnect
    \/ NcmNotDone
    \/ AppPutDatagram(DgLens)
    \/ NcmInDone
    \/ NcmTxHaltRequest
    \/ Ep0InDone

SpecNcmTxHalt == InitNcm /\ [][NextNcmTxHalt]_vars

\* SET_INTERFACE requests to the device with the NCM interface: alternate
\* settings the interface has and has not, interface numbers the device has
\* and has not, sent to the configured and to the unconfigured device, the
\* application connecting the network link in between
AltSetups ==
    {Setup(H2D, STD, ITF, USB_REQ_SET_INTERFACE, v, i, 0) :
        v \in {0, 1, 2}, i \in {0, 1, 2}}
    \cup {Setup(H2D, STD, DEV, USB_REQ_SET_CONFIGURATION, v, 0, 0) :
            v \in {0, 1}}
    \cup {Setup(D2H, STD, ITF, USB_REQ_GET_INTERFACE, 0, 1, 1)}

AltRequest == HostSetup(AltSetups, {USBD_E_OK})

NextAlt ==
    \/ AltRequest
    \/ Ep0InDone
    \/ Ep0OutDone
    \/ AppNcmConnect

SpecAlt == InitNcm /\ [][NextAlt]_vars

\* the control requests of the NCM interface: the class requests with a
\* Data stage in either direction and with the wrong direction, standard
\* interface requests, a request the class refuses, an interface number
\* the device does not have, and configuration changes
NcmCtlSetups ==
    {Setup(d, USB_REQ_TYPE_CLASS, ITF, CDC_REQ_GET_NTB_PARAMETERS, 0, i, l) :
        d \in {D2H, H2D}, i \in {0, 1}, l \in {SizeofNcmParameters, 255}}
    \cup {Setup(D2H, USB_REQ_TYPE_CLASS, ITF, CDC_REQ_GET_NTB_INPUT_SIZE, 0, 0,
                SizeofNtbInputSize)}
    \cup {Setup(d, USB_REQ_TYPE_CLASS, ITF, CDC_REQ_SET_NTB_INPUT_SIZE, 0, i,
                SizeofNtbInputSize) : d \in {D2H, H2D}, i \in {0, 2}}
    \cup {Setup(D2H, STD, ITF, USB_REQ_GET_INTERFACE, 0, 1, 1),
          Setup(H2D, STD, ITF, USB_REQ_SET_INTERFACE, 1, 1, 0),
          Setup(H2D, USB_REQ_TYPE_CLASS, ITF, 1, 0, 0, 0)}
    \cup {Setup(H2D, STD, DEV, USB_REQ_SET_CONFIGURATION, v, 0, 0) :
            v \in {0, 1}}

\* values of dwNtbInMaxSize the host sends with SET_NTB_INPUT_SIZE: the
\* size of the headers alone, a size in range, the largest size
NtbInputSizes == {SizeofNTH16 + SizeofNDP16, 1024, USBD_NCM_MAX_IN_SIZE}

NcmCtlRequest == HostSetup(NcmCtlSetups, {USBD_E_OK})

NcmEp0OutDone == Ep0OutData(NtbInputSizes)

NextNcmCtl ==
    \/ NcmCtlRequest
    \/ Ep0InDone
    \/ NcmEp0OutDone

SpecNcmCtl == InitNcm /\ [][NextNcmCtl]_vars

----------------------------------------------------------------------------
(* Properties *)

Ep0Pending == pd.xfer[0] # <<>> \/ pd.xfer[128] # <<>>

\* C2: a control transfer that is not answered with a STALL always gets a
\* Status stage (until it starts, a transfer of the Data stage is pending),
\* and once the Status stage has completed EP0 IN and EP0 OUT are both Idle.
C2_StatusStageThenIdle ==
    /\ (obs.ctl.active /\ ~obs.ctl.stalled /\ obs.ctl.status = 0) => Ep0Pending
    /\ obs.ctl.status = 2 =>
          /\ dev.EP[128].State = USB_EP_STATE_IDLE
          /\ dev.EP[0].State = USB_EP_STATE_IDLE

\* C3: when the setup handler has returned Ok for a request with
\* wLength > 0, a Data-stage transfer is armed on EP0 in the direction of
\* bmRequestType when USBD_SetupCallback returns.
C3_DataStageArmed ==
    (obs.ev.t = "setup" /\ obs.ctl.ret = USBD_E_OK /\ dev.Setup.Length > 0) =>
        LET e == IF dev.Setup.Direction = USB_DIRECTION_IN THEN 128 ELSE 0
        IN  /\ pd.xfer[e] # <<>>
            /\ pd.xfer[e][1].stage = USB_EP_STATE_DATA

\* the accepted length asks for a terminating zero-length packet
ZlpDue ==
    /\ obs.ctl.accepted > 0
    /\ obs.ctl.accepted % USB_EP0_FS_MAX_PACKET_SIZE = 0
    /\ obs.ctl.accepted < dev.Setup.Length

\* C4: the length ctrl_send_data accepts is at most wLength, no more data
\* bytes than that are transmitted, at most one zero-length packet follows
\* the data and only when the length is a non-zero multiple of the EP0
\* packet size below wLength; when the Status stage starts, all accepted
\* bytes were transmitted and the zero-length packet was sent exactly when
\* it was due.
C4_SendDataClipped ==
    obs.ctl.accepted >= 0 =>
        /\ obs.ctl.accepted <= dev.Setup.Length
        /\ obs.ctl.sent <= obs.ctl.accepted
        /\ obs.ctl.zlps <= 1
        /\ obs.ctl.zlps = 1 => (obs.ctl.sent = obs.ctl.accepted /\ ZlpDue)
        /\ obs.ctl.status >= 1 =>
              /\ obs.ctl.sent = obs.ctl.accepted
              /\ obs.ctl.zlps = 1 <=> ZlpDue

\* C4 witness: a descriptor of one EP0 packet was sent to a host that asked
\* for more, the zero-length packet followed and the transfer completed
C4_Witness ==
    /\ obs.ctl.accepted = USB_EP0_FS_MAX_PACKET_SIZE
    /\ obs.ctl.sent = USB_EP0_FS_MAX_PACKET_SIZE
    /\ dev.Setup.Length > USB_EP0_FS_MAX_PACKET_SIZE
    /\ obs.ctl.zlps = 1
    /\ obs.ctl.status = 2


\* the CSW of the command in progress is submitted on the bulk IN endpoint
CswPending ==
    /\ pd.xfer[129] # <<>>
    /\ pd.xfer[129][1].data = BufCSW
    /\ obs.bot.open

\* a command with a data phase is about to be reported as passed
PassedWithData ==
    /\ CswPending
    /\ msc.CSW.bStatus = MSC_CSW_CMD_PASSED
    /\ msc.CBW.dDataLength > 0

\* C5 as stated: when the CSW of a passed command with data_length > 0 is
\* sent, exactly data_length bytes were transferred on the bulk data
\* endpoints and the residue is data_length minus the bytes transferred.
C5_ExactlyDataLength ==
    PassedWithData =>
        /\ obs.bot.xferred = msc.CBW.dDataLength
        /\ msc.CSW.dDataResidue = msc.CBW.dDataLength - obs.bot.xferred

\* C5 amended: when the CSW of a passed command with data_length > 0 is
\* sent, at most data_length bytes were transferred on the bulk data
\* endpoints, exactly data_length for READ10 and WRITE10, and the residue is
\* data_length minus the bytes transferred.
C5_ResidueAccounts ==
    PassedWithData =>
        /\ obs.bot.xferred <= msc.CBW.dDataLength
        /\ msc.CSW.dDataResidue = msc.CBW.dDataLength - obs.bot.xferred
        /\ msc.CBW.CB.op \in {SCSI_READ10, SCSI_WRITE10} =>
              obs.bot.xferred = msc.CBW.dDataLength

\* C5 witness: a passed command returned fewer bytes than the host allowed
C5_Witness ==
    /\ PassedWithData
    /\ 0 < obs.bot.xferred
    /\ obs.bot.xferred < msc.CBW.dDataLength
    /\ msc.CSW.dDataResidue > 0

\* C6: a packet received in CommandOut with a wrong signature, a length
\* other than 31, a LUN above the maximum or a command block length outside
\* 1..16 stalls bulk IN and bulk OUT, puts the interface into Error status
\* with sense (IllegalRequest, InvalidCdb), runs no SCSI command and sends no
\* CSW; no CSW is sent while the interface stays in Error status.
C6_InvalidCbwStallsBoth ==
    [][/\ ( /\ obs'.ev.t = "cbw"
            /\ \/ ~msc'.CBW.sig
               \/ obs'.ev.n # SizeofCBW
               \/ msc'.CBW.bLUN > msc.Config.MaxLUN
               \/ msc'.CBW.bCBLength \notin 1 .. SizeofCB )
          => /\ dev'.EP[129].State = USB_EP_STATE_STALL
             /\ dev'.EP[1].State = USB_EP_STATE_STALL
             /\ pd'.halt[129] /\ pd'.halt[1]
             /\ msc'.Status = MSC_STATUS_ERROR
             /\ msc'.Sense = [Key |-> SCSI_SKEY_ILLEGAL_REQUEST,
                              ASC |-> SCSI_ASC_INVALID_CDB]
             /\ obs'.bot.scsi = 0
             /\ obs'.rec = "error"
       /\ msc'.Status = MSC_STATUS_ERROR
          => /\ obs'.bot.csws = 0
             /\ pd'.xfer[129] = <<>>]_vars

\* C6 witness: a short packet was taken where a CBW was expected
C6_Witness ==
    /\ obs.ev.t = "cbw"
    /\ obs.ev.n = SizeofCBW - 1
    /\ msc.CBW.sig
    /\ msc.Status = MSC_STATUS_ERROR
    /\ pd.halt[129] /\ pd.halt[1]

\* C7: after an invalid CBW, BULK_ONLY_RESET and CLEAR_FEATURE(HALT) on both
\* bulk endpoints in either order leave the interface in CommandOut with
\* Normal status and a CBW reception armed, and the valid CBW that follows is
\* answered: its CSW is submitted, or its data phase is in progress, or a
\* bulk endpoint is halted for the host to clear.
C7_ResetRecovery ==
    /\ obs.rec = "done" =>
          /\ msc.State = MSC_STATE_COMMAND_OUT
          /\ msc.Status = MSC_STATUS_NORMAL
          /\ pd.xfer[1] = <<[data |-> BufCBW, len |-> SizeofCBW,
                             stage |-> USB_EP_STATE_DATA]>>
          /\ ~pd.halt[1] /\ ~pd.halt[129]
    /\ obs.rec = "answer" =>
          \/ obs.bot.csws >= 1
          \/ pd.xfer[129] # <<>>
          \/ msc.State = MSC_STATE_DATA_OUT /\ pd.xfer[1] # <<>>
          \/ pd.halt[129] \/ pd.halt[1]

\* C8: a valid CBW with data_length > 0 that its SCSI handler rejects puts
\* the interface into Stall and halts exactly the endpoint of the direction
\* in bmFlags; the CLEAR_FEATURE(HALT) for that endpoint submits one CSW with
\* status Failed and the tag of the CBW, and the interface is in CommandOut
\* with a CBW reception armed.
C8_RejectedCommand ==
    [][LET d == IF msc'.CBW.bmFlags = 0 THEN 1 ELSE 129
           o == IF msc'.CBW.bmFlags = 0 THEN 129 ELSE 1
       IN  /\ ( /\ obs'.ev.t = "cbw"
                /\ obs'.bot.scsi = 1
                /\ msc'.CBW.dDataLength > 0
                /\ msc'.CSW.bStatus = MSC_CSW_CMD_FAILED )
              => /\ msc'.State = MSC_STATE_STALL
                 /\ pd'.halt[d] /\ dev'.EP[d].State = USB_EP_STATE_STALL
                 /\ ~pd'.halt[o] /\ dev'.EP[o].State # USB_EP_STATE_STALL
                 /\ obs'.bot.csws = 0
           /\ ( /\ obs'.ev.t = "setup"
                /\ IsClearHalt(dev'.Setup, d)
                /\ msc.State = MSC_STATE_STALL
                /\ pd.halt[d]
                /\ obs.bot.open
                /\ obs.bot.scsi = 1
                /\ msc.CBW.dDataLength > 0
                /\ msc.CSW.bStatus = MSC_CSW_CMD_FAILED )
              => /\ obs'.bot.csws = 1
                 /\ pd'.xfer[129] = <<[data |-> BufCSW, len |-> SizeofCSW,
                                       stage |-> USB_EP_STATE_DATA]>>
                 /\ msc'.CSW.bStatus = MSC_CSW_CMD_FAILED
                 /\ msc'.CSW.dTag = msc.CBW.dTag
                 /\ msc'.State = MSC_STATE_COMMAND_OUT
                 /\ pd'.xfer[1] = <<[data |-> BufCBW, len |-> SizeofCBW,
                                     stage |-> USB_EP_STATE_DATA]>>
                 /\ ~pd'.halt[d]]_vars

\* C8 witness: the halt of a rejected command was cleared and its CSW is
\* submitted
C8_Witness ==
    /\ obs.ev.t = "setup"
    /\ IsClearHalt(dev.Setup, 1)
    /\ obs.bot.open
    /\ obs.bot.csws = 1
    /\ msc.CSW.bStatus = MSC_CSW_CMD_FAILED
    /\ msc.State = MSC_STATE_COMMAND_OUT
    /\ CswPending


\* C9: when CLEAR_FEATURE(ENDPOINT_HALT) has been processed for a halted
\* data endpoint, the endpoint is not halted any more and it is Idle, or in
\* Data because its owner has already submitted the next transfer with Ok.
C9_ClearHaltIdle ==
    [][\A e \in EpKeys \ {0, 128} :
         ( /\ obs'.ev.t = "setup"
           /\ IsClearHalt(dev'.Setup, e)
           /\ dev.ConfigSelector # 0
           /\ dev.EP[e].State = USB_EP_STATE_STALL )
         => /\ obs'.ctl.ret = USBD_E_OK
            /\ ~pd'.halt[e]
            /\ \/ dev'.EP[e].State = USB_EP_STATE_IDLE
               \/ /\ dev'.EP[e].State = USB_EP_STATE_DATA
                  /\ pd'.xfer[e] # <<>>]_vars

\* C10: whenever the configuration selector is 0, every endpoint other than
\* EP0 is Closed in both directions.
C10_UnconfiguredClosed ==
    dev.ConfigSelector = 0 =>
        \A e \in EpKeys \ {0, 128} : dev.EP[e].State = USB_EP_STATE_CLOSED

----------------------------------------------------------------------------
(* NCM receive path *)

\* C14: through repeated get_datagram calls the application observes the
\* datagrams of each valid block in the order of the entries of its NDP
\* chain, each once, and the blocks in the order received: get_datagram
\* never returns anything but the first datagram not yet seen, and it
\* returns no datagram only when every datagram received has been seen
C14_DatagramsInOrder ==
    /\ ~obs.net.bad
    /\ (obs.ev.t = "get" /\ obs.net.got.null) => obs.net.exp = <<>>

\* the last datagram of the third block, which has two chained NDPs, is
\* returned after every other datagram
C14_Witness ==
    /\ obs.ev.t = "get"
    /\ obs.net.got = [id |-> 3, Index |-> 84, Length |-> 40, null |-> FALSE]
    /\ obs.net.exp = <<>>
    /\ ~obs.net.bad

\* C16: a block that fails the NTH16 or NDP16 verification is dropped: its
\* slot is Empty and receives again at once, the Received callback is not
\* invoked, nothing else of the receive ring changes, and get_datagram never
\* returns a datagram of such a block
C16_InvalidNtbDropped ==
    /\ [][(obs'.ev.t = "ntb" /\ ~obs'.net.rx.ok) =>
            LET page == obs'.net.rx.page IN
            /\ ~obs'.net.cb
            /\ ncm'.Out.State[page] = NTB_TRANSFERRING
            /\ ncm'.Out.State[1 - page] = ncm.Out.State[1 - page]
            /\ pd'.xfer[1] # <<>>
            /\ pd'.xfer[1][1].data = BufOut(page)
            /\ pd'.xfer[1][1].len = USBD_NCM_MAX_OUT_SIZE
            /\ ncm'.Out.Page = ncm.Out.Page
            /\ ncm'.Out.PT = ncm.Out.PT
            /\ ncm'.Out.Dx = ncm.Out.Dx
            /\ obs'.net.exp = obs.net.exp]_vars
    /\ [](obs.net.got.null \/ obs.net.got.id \notin obs.net.drop)

\* the second block failed the verification and was dropped; the third
\* block, received into the same slot, is delivered
C16_Witness ==
    /\ obs.net.drop = {2}
    /\ obs.ev.t = "get"
    /\ obs.net.got = [id |-> 3, Index |-> 28, Length |-> 60, null |-> FALSE]
    /\ ncm.Out.Data[0].id = 3

\* the application still has datagrams of the block in the slot to read, or
\* reads the datagram get_datagram returned last from it
SlotInUse(page) ==
    \/ \E i \in 1 .. Len(obs.net.exp) :
          obs.net.exp[i].id = ncm.Out.Data[page].id
    \/ ~obs.net.got.null /\ obs.net.got.id = ncm.Out.Data[page].id

\* C12: the bulk OUT endpoint is armed to receive only into a slot that is
\* Empty, never into a slot that is Ready or that the application still
\* drains through get_datagram
C12_ArmedSlotEmpty ==
    pd.xfer[1] # <<>> =>
        LET page == IF pd.xfer[1][1].data = BufOut(0) THEN 0 ELSE 1 IN
        /\ ~SlotInUse(page)
        /\ ncm.Out.State[page] \notin {NTB_READY, NTB_PROCESSING}

----------------------------------------------------------------------------
(* NCM transmit path *)

\* C11: the page being filled is never the page being sent, and no NDP or
\* datagram data is written into a page between its submission to the
\* peripheral driver and the completion of that transfer
C11_FillNotSend ==
    /\ ~obs.net.hit
    /\ pd.xfer[129] # <<>> => pd.xfer[129][1].data # BufIn(ncm.In.Page)

RECURSIVE SumRoundUp4(_, _)
\* the sum of roundup4(length) over the entries i .. of a datagram table
SumRoundUp4(dgs, i) ==
    IF i > Len(dgs) THEN 0
    ELSE RoundUp4(dgs[i].Length) + SumRoundUp4(dgs, i + 1)

\* C13: for every NTB send_ntb assembles and submits, the NTH16 block length
\* is the number of bytes submitted to the peripheral driver and is
\* sizeof(NTH16) + NDP16.length + the sum of roundup4(length) over the
\* datagrams carried
C13_BlockLength ==
    (obs.net.ntb.any /\ obs.net.ntb.ret = USBD_E_OK) =>
        /\ obs.net.ntb.nth.BlockLength = obs.net.ntb.len
        /\ obs.net.ntb.nth.BlockLength =
              SizeofNTH16 + obs.net.ntb.pt.Length
              + SumRoundUp4(NdpEntries(obs.net.ntb.pt.Datagram, 1), 1)

\* C15: the datagrams committed between two send_ntb invocations are carried
\* in one NTB that is submitted, whose NDP lists them in submission order:
\* the first at sizeof(NTH16), each next one at the previous offset plus
\* length rounded up to four, with the lengths as submitted and at the
\* places the application wrote them, followed by the {0, 0} entry
C15_SingleNtbInOrder ==
    obs.net.ntb.any =>
        LET com == obs.net.ntb.com
            dg  == obs.net.ntb.pt.Datagram
        IN  /\ obs.net.ntb.ret = USBD_E_OK
            /\ Len(dg) = Len(com) + 1
            /\ dg[Len(dg)] = DgNone
            /\ \A i \in 1 .. Len(com) :
                  /\ com[i].page = obs.net.ntb.page
                  /\ dg[i].Length = com[i].Length
                  /\ dg[i].Index = com[i].Index
                  /\ dg[i].Index = IF i = 1 THEN SizeofNTH16
                                   ELSE RoundUp4(dg[i - 1].Index
                                                 + dg[i - 1].Length)

----------------------------------------------------------------------------
(* Control transfers: submissions, stages and rejected requests *)

\* C17: every endpoint that is not isochronous has at most one transfer
\* submitted to the peripheral driver and not completed: no handler submits
\* a transfer on an endpoint on which a transfer is still pending
C17_OneTransferInFlight ==
    \A i \in 1 .. Len(obs.sub) :
        dev.EP[obs.sub[i].ep].Type # USB_EP_TYPE_ISOCHRONOUS
            => ~obs.sub[i].pending

\* the control transfer in progress has a Data stage and is addressed to an
\* interface of the configured device
IfDataTransfer ==
    /\ obs.ctl.active
    /\ obs.ctl.ret = USBD_E_OK
    /\ dev.Setup.Length > 0
    /\ dev.Setup.Recipient = USB_REQ_RECIPIENT_INTERFACE
    /\ dev.ConfigSelector # 0

\* C18: in a control transfer with a Data stage addressed to an interface of
\* a configured device the DataStage callback of the interface is called
\* exactly once, after the Data-stage transfer has completed and before the
\* Status-stage transfer is started
C18_DataStageOnce ==
    IfDataTransfer =>
        /\ obs.ctl.ds <= 1
        /\ obs.ctl.status >= 1 <=> obs.ctl.ds = 1
        /\ obs.ctl.ds = 1 =>
             /\ obs.ctl.dsAt.status = 0
             /\ ~obs.ctl.dsAt.pending
             /\ dev.Setup.Direction = USB_DIRECTION_IN
                  => obs.ctl.sent = obs.ctl.accepted

C18_Witness ==
    /\ IfDataTransfer
    /\ dev.Setup.Request = CDC_REQ_SET_NTB_INPUT_SIZE
    /\ obs.ctl.ds = 1
    /\ obs.ctl.status = 2
    /\ ncm.In.MaxSize = 1024

\* no control transfer is in progress: none was started since the bus
\* reset, or the last one was stalled or has completed its Status stage
NoCtrlTransfer ==
    \/ ~obs.ctl.active
    \/ obs.ctl.stalled
    \/ obs.ctl.status = 2

\* C19: USBD_CtrlSendData and USBD_CtrlReceiveData return OK only within
\* the Setup or Data stage of a control transfer of the matching direction;
\* called when no control transfer is in progress they return ERROR and
\* start no transfer on EP0
C19_CtrlCallOutsideTransfer ==
    [][(obs'.ev.t \in {"ctrl_send", "ctrl_recv"} /\ obs' # obs) =>
         /\ obs'.ev.n = USBD_E_OK =>
              /\ ~NoCtrlTransfer
              /\ dev.Setup.Direction = IF obs'.ev.t = "ctrl_send"
                                       THEN USB_DIRECTION_IN
                                       ELSE USB_DIRECTION_OUT
         /\ NoCtrlTransfer =>
              /\ obs'.ev.n = USBD_E_ERROR
              /\ obs'.sub = <<>>
              /\ pd' = pd]_vars

\* C20: a setup request whose handler returns a result other than OK, or
\* whose recipient is none of device, interface and endpoint, is answered by
\* stalling both EP0 IN and EP0 OUT, and neither a Data stage nor a Status
\* stage is started for it
C20_RejectedRequestStalled ==
    (/\ obs.ev.t = "setup"
     /\ \/ obs.ctl.ret # USBD_E_OK
        \/ dev.Setup.Recipient \notin {USB_REQ_RECIPIENT_DEVICE,
                                       USB_REQ_RECIPIENT_INTERFACE,
                                       USB_REQ_RECIPIENT_ENDPOINT})
    => /\ obs.ctl.stalled
       /\ dev.EP[0].State = USB_EP_STATE_STALL
       /\ dev.EP[128].State = USB_EP_STATE_STALL
       /\ pd.halt[0] /\ pd.halt[128]
       /\ obs.sub = <<>>
       /\ pd.xfer[0] = <<>> /\ pd.xfer[128] = <<>>
       /\ obs.ctl.status = 0
       /\ obs.ctl.accepted = -1

C20_Witness ==
    /\ obs.ev.t = "setup"
    /\ dev.Setup.Recipient = USB_REQ_RECIPIENT_OTHER
    /\ obs.ctl.ret = USBD_E_INVALID
    /\ obs.ctl.stalled
    /\ pd.halt[0] /\ pd.halt[128]

----------------------------------------------------------------------------
(* Device requests: address, configuration, alternate setting *)

\* the request in dev.Setup is a SET_ADDRESS the device may accept
AddressAcceptable ==
    /\ dev.Setup.Direction = USB_DIRECTION_OUT
    /\ dev.Setup.Type = USB_REQ_TYPE_STANDARD
    /\ dev.Setup.Recipient = USB_REQ_RECIPIENT_DEVICE
    /\ dev.Setup.Request = USB_REQ_SET_ADDRESS
    /\ dev.Setup.Index = 0
    /\ dev.Setup.Length = 0
    /\ dev.ConfigSelector = 0

\* C21: the device address is written to the peripheral driver only for a
\* SET_ADDRESS with wIndex = 0 and wLength = 0 received while unconfigured,
\* and only when the Status-stage ZLP of that request has completed on
\* EP0 IN; any other SET_ADDRESS is stalled and does not change the address
\* (the bus reset itself returns the peripheral to address 0)
C21_AddressAfterStatus ==
    /\ [][pd'.addr # pd.addr =>
            \/ obs'.ev.t = "reset" /\ pd'.addr = 0
            \/ /\ AddressAcceptable
               /\ obs.ctl.ret = USBD_E_OK
               /\ obs.ctl.status = 1
               /\ obs'.ctl.status = 2
               /\ obs'.ev.t = "in"
               /\ pd'.addr = dev.Setup.Value % 128]_vars
    /\ []((/\ obs.ev.t = "setup"
           /\ dev.Setup.Type = USB_REQ_TYPE_STANDARD
           /\ dev.Setup.Recipient = USB_REQ_RECIPIENT_DEVICE
           /\ dev.Setup.Request = USB_REQ_SET_ADDRESS
           /\ ~AddressAcceptable)
          => /\ obs.ctl.stalled
             /\ pd.xfer[128] = <<>>)

C21_Witness ==
    /\ obs.ev.t = "in"
    /\ AddressAcceptable
    /\ dev.Setup.Value = 128 + 6
    /\ obs.ctl.status = 2
    /\ pd.addr = 6

\* C22: SET_CONFIGURATION performs set_configuration(wValue) if and only if
\* the 16-bit wValue is at most USBD_MAX_CONFIGURATION_COUNT; for any other
\* wValue the request is stalled and the configuration, the interfaces and
\* the endpoints are left as they were
C22_SetConfigRange ==
    [][(obs'.ev.t = "setup" /\ IsSetConfig(dev'.Setup)) =>
         IF dev'.Setup.Value <= USBD_MAX_CONFIGURATION_COUNT
         THEN /\ obs'.ctl.ret = USBD_E_OK
              /\ dev'.ConfigSelector = dev'.Setup.Value
         ELSE /\ obs'.ctl.stalled
              /\ dev'.ConfigSelector = dev.ConfigSelector
              /\ dev'.AltSelector = dev.AltSelector
              /\ msc' = msc
              /\ \A e \in EpKeys \ {0, 128} :
                   /\ dev'.EP[e] = dev.EP[e]
                   /\ pd'.xfer[e] = pd.xfer[e]]_vars

\* the data endpoints the mounted interfaces have claimed: the mount wrote
\* their type into the endpoint table
ClaimedEps == {e \in EpKeys \ {0, 128} : dev.EP[e].Type # USB_EP_TYPE_CONTROL}

\* C23: when a SET_CONFIGURATION with a configuration other than 0 has been
\* performed, every data endpoint claimed by a mounted interface is open
\* with the full-speed maximum packet size of its type, so that a transfer
\* on it is accepted (or is already in use by the interface itself)
C23_ConfiguredEndpointsOpen ==
    (/\ obs.ev.t = "setup"
     /\ IsSetConfig(dev.Setup)
     /\ obs.ctl.ret = USBD_E_OK
     /\ dev.ConfigSelector # 0)
    => \A e \in ClaimedEps :
         /\ dev.EP[e].State \in {USB_EP_STATE_IDLE, USB_EP_STATE_DATA}
         /\ ~pd.halt[e]
         /\ dev.EP[e].Type = USB_EP_TYPE_BULK
              => dev.EP[e].MaxPacketSize = USB_EP_BULK_FS_MPS

\* the request is SET_INTERFACE
IsSetInterface(s) ==
    /\ s.Recipient = USB_REQ_RECIPIENT_INTERFACE
    /\ s.Type = USB_REQ_TYPE_STANDARD
    /\ s.Request = USB_REQ_SET_INTERFACE

\* C24: SET_INTERFACE(ifNum, altSel) succeeds exactly when the device is
\* configured, ifNum is a mounted interface and altSel is below its number
\* of alternate settings; it then runs Deinit with the old setting, stores
\* altSel and runs Init with the new one (seen on the NCM interface: the
\* link is dropped and the endpoints of the old setting are closed before
\* the notification endpoint of setting 1 is opened); otherwise the request
\* is stalled and the interface and its endpoints are left as they were
C24_SetInterface ==
    [][(obs'.ev.t = "setup" /\ IsSetInterface(dev'.Setup)) =>
        LET ifNum  == dev'.Setup.Index % 256
            altSel == dev'.Setup.Value % 256
            slot   == ItfSlot([dev |-> dev], ifNum)
        IN  IF /\ dev.ConfigSelector # 0
               /\ ifNum < dev.IfCount
               /\ altSel < dev.AltCount[slot]
            THEN /\ obs'.ctl.ret = USBD_E_OK
                 /\ obs'.ctl.status = 1
                 /\ dev'.AltSelector = [dev.AltSelector EXCEPT ![slot] = altSel]
                 /\ ncm'.Connection = 0
                 /\ \A e \in {129, 1} :
                      /\ dev.AltSelector[slot] = 1
                           => dev'.EP[e].State = USB_EP_STATE_CLOSED
                      /\ dev.AltSelector[slot] = 0
                           => dev'.EP[e].State = dev.EP[e].State
                 /\ pd'.xfer[129] = <<>> /\ pd'.xfer[1] = <<>>
                 /\ IF altSel = 1
                    THEN /\ dev'.EP[130].State = USB_EP_STATE_IDLE
                         /\ pd'.xfer[130] = <<>>
                         /\ ncm'.In.MaxSize = ncm.In.MaxSize
                    ELSE /\ dev'.EP[130].State = USB_EP_STATE_CLOSED
                         /\ ncm'.In.MaxSize = USBD_NCM_MAX_IN_SIZE
            ELSE /\ obs'.ctl.stalled
                 /\ dev'.AltSelector = dev.AltSelector
                 /\ ncm' = ncm
                 /\ \A e \in NcmEps :
                      /\ dev'.EP[e] = dev.EP[e]
                      /\ pd'.xfer[e] = pd.xfer[e]]_vars

C24_Witness ==
    /\ obs.ev.t = "setup"
    /\ IsSetInterface(dev.Setup)
    /\ dev.Setup.Value = 1
    /\ obs.ctl.ret = USBD_E_OK
    /\ dev.AltSelector[0] = 1
    /\ ncm.Connection = 0
    /\ dev.EP[129].State = USB_EP_STATE_CLOSED
    /\ dev.EP[130].State = USB_EP_STATE_IDLE


----------------------------------------------------------------------------
(* Mounting.  The application fills the Config of an interface handle and  *)
(* mounts it on the device.  USBD_EpAddr2Ref indexes EP.IN with the low    *)
(* four bits of the address and EP.OUT with the whole address; both        *)
(* tables have USBD_MAX_EP_COUNT elements, so an address beyond that       *)
(* designates memory outside the table it was meant for.  The write        *)
(* through such a reference is undefined; the outcomes kept here are: the  *)
(* write lands where the layout of USBD_HandleType puts it (EP.OUT follows *)
(* EP.IN, so EP.IN[USBD_MAX_EP_COUNT + k] is EP.OUT[k]; what follows       *)
(* EP.OUT is not part of the endpoint tables), or it lands nowhere in the  *)
(* tables.  obs.mnt notes the class of the last mount call, what it        *)
(* returned and whether it wrote through a reference outside the tables.   *)
(* The build is the one of Templates/usbd_config.h: the CDC interface      *)
(* without notification endpoint (USBD_CDC_NOTEP_USED 0), the HID          *)
(* interface without OUT endpoint (USBD_HID_OUT_SUPPORT 0).                *)

UbOutcomes == {"adjacent", "elsewhere"}

InTable(epAddr) ==
    IF epAddr > 127 THEN BitAnd(epAddr, 15) < USBD_MAX_EP_COUNT
                    ELSE epAddr < USBD_MAX_EP_COUNT

\* the elements of dev.EP that a write through USBD_EpAddr2Ref(epAddr)
\* changes
MountEpRef(epAddr, ub) ==
    IF InTable(epAddr) THEN {USBD_EpAddr2Ref(epAddr)}
    ELSE IF epAddr > 127 /\ ub = "adjacent"
    THEN {BitAnd(epAddr, 15) - USBD_MAX_EP_COUNT}
    ELSE {}

EpClaim(w, epAddr, type, mps, ub) ==
    LET R == MountEpRef(epAddr, ub) IN
    [w EXCEPT !.dev.EP = [e \in EpKeys |->
                            IF e \in R
                            THEN [@[e] EXCEPT !.Type = type,
                                              !.MaxPacketSize = mps,
                                              !.IfNum = w.dev.IfCount]
                            ELSE @[e]],
              !.obs.mnt.oob = @ \/ ~InTable(epAddr)]

\* dev->IF[dev->IfCount] = itf; dev->IfCount++, with the Base fields of itf
BindSlot(w, class, altCount) ==
    [w EXCEPT !.dev.If[w.dev.IfCount] = class,
              !.dev.AltCount[w.dev.IfCount] = altCount,
              !.dev.AltSelector[w.dev.IfCount] = 0,
              !.dev.IfCount = @ + 1]

USBD_MSC_MountInterface(w, ub) ==
    IF w.dev.IfCount < USBD_MAX_IF_COUNT
    THEN Bind(EpClaim(w, w.msc.Config.InEpNum, USB_EP_TYPE_BULK,
                      USB_EP_BULK_FS_MPS, ub), LAMBDA w1 :
         Bind(EpClaim(w1, w1.msc.Config.OutEpNum, USB_EP_TYPE_BULK,
                      USB_EP_BULK_FS_MPS, ub), LAMBDA w2 :
         Ret(BindSlot(w2, "MSC", 1), USBD_E_OK)))
    ELSE Ret(w, USBD_E_ERROR)

USBD_NCM_MountInterface(w, ub) ==
    IF w.dev.IfCount < USBD_MAX_IF_COUNT - 1
    THEN Bind(EpClaim(w, w.ncm.Config.NotEpNum, USB_EP_TYPE_INTERRUPT,
                      NCM_NOT_PACKET_SIZE, ub), LAMBDA w1 :
         Bind(EpClaim(w1, w1.ncm.Config.InEpNum, USB_EP_TYPE_BULK,
                      USB_EP_BULK_FS_MPS, ub), LAMBDA w2 :
         Bind(EpClaim(w2, w2.ncm.Config.OutEpNum, USB_EP_TYPE_BULK,
                      USB_EP_BULK_FS_MPS, ub), LAMBDA w3 :
         Ret(BindSlot(BindSlot(w3, "NCM", 2), "NCM", 2), USBD_E_OK))))
    ELSE Ret(w, USBD_E_ERROR)

USBD_CDC_MountInterface(w, ub) ==
    IF w.dev.IfCount < USBD_MAX_IF_COUNT - 1
    THEN Bind([w EXCEPT !.cdc.TransmitLength = 0], LAMBDA w1 :
         Bind(EpClaim(w1, w1.cdc.Config.InEpNum, USB_EP_TYPE_BULK,
                      USB_EP_BULK_FS_MPS, ub), LAMBDA w2 :
         Bind(EpClaim(w2, w2.cdc.Config.OutEpNum, USB_EP_TYPE_BULK,
                      USB_EP_BULK_FS_MPS, ub), LAMBDA w3 :
         Ret(BindSlot(BindSlot(w3, "CDC", 1), "CDC", 1), USBD_E_OK))))
    ELSE Ret(w, USBD_E_ERROR)

USBD_HID_MountInterface(w, ub) ==
    IF w.dev.IfCount < USBD_MAX_IF_COUNT
    THEN Bind(EpClaim(w, w.hid.Config.InEpNum, USB_EP_TYPE_INTERRUPT,
                      Min(w.hid.Report.InputMaxSize, USB_EP_INTR_FS_MPS), ub),
              LAMBDA w1 :
         Ret(BindSlot(w1, "HID", 1), USBD_E_OK))
    ELSE Ret(w, USBD_E_ERROR)

\* the DFU interface has no endpoints; its class and alternate settings are
\* set by USBD_DFU_AppInit / USBD_DFU_BootInit before it is mounted
USBD_DFU_MountInterface(w) ==
    IF w.dev.IfCount < USBD_MAX_IF_COUNT
    THEN Ret(BindSlot(w, "DFU", 1), USBD_E_OK)
    ELSE Ret(w, USBD_E_ERROR)

\* the device after USBD_Init, before any interface is mounted
DevBlank ==
    [DevInit EXCEPT
       !.EP = [e \in EpKeys |->
                 [State |-> USB_EP_STATE_CLOSED, Type |-> USB_EP_TYPE_CONTROL,
                  MaxPacketSize |-> IF e \in {0, 128}
                                    THEN USB_EP0_FS_MAX_PACKET_SIZE ELSE 0,
                  IfNum |-> 0, Length |-> 0]],
       !.IfCount = 0,
       !.If = [n \in 0 .. USBD_MAX_IF_COUNT - 1 |-> "NULL"],
       !.AltCount = [n \in 0 .. USBD_MAX_IF_COUNT - 1 |-> 0]]

InitMount ==
    /\ dev = DevBlank
    /\ pd  = PdInit
    /\ msc = MscInit
    /\ lu  = LuInit
    /\ ncm = NcmInit
    /\ cdc = CdcInit
    /\ hid = HidInit
    /\ dfu = DfuInit
    /\ obs = ObsInit

\* the classes of the interfaces mounted on the device
Mounted == {dev.If[n] : n \in 0 .. dev.IfCount - 1}

\* the configurations an application gives to its interfaces: endpoint
\* addresses inside the tables, shared between interfaces or not, and
\* addresses past the end of the tables
MscConfigs ==
    {[InEpNum |-> i, OutEpNum |-> o, MaxLUN |-> 0] :
       i \in {129, 128 + USBD_MAX_EP_COUNT}, o \in {1, USBD_MAX_EP_COUNT}}

NcmConfigs ==
    {[OutEpNum |-> 1, InEpNum |-> 129, NotEpNum |-> n] :
       n \in {130, 128 + USBD_MAX_EP_COUNT + 1}}

CdcConfigs ==
    {[InEpNum |-> i, OutEpNum |-> o, NotEpNum |-> 128 + 15] :
       i \in {129, 130}, o \in {1, 2}}

HidConfigs ==
    {[InEpNum |-> i] : i \in {129, 131, 128 + USBD_MAX_EP_COUNT}}

\* one mount call of the application: the handle gets its Config, then the
\* mount function of its class runs
MountCall(class, w0, wn) ==
    /\ class \notin Mounted
    /\ w0.obs.mnt.cls = class
    /\ dev' = wn.dev
    /\ pd'  = wn.pd
    /\ msc' = wn.msc
    /\ lu'  = wn.lu
    /\ ncm' = wn.ncm
    /\ cdc' = wn.cdc
    /\ hid' = wn.hid
    /\ dfu' = wn.dfu
    /\ obs' = [wn.obs EXCEPT !.mnt.ret = wn.ret]

MountWorld(class) ==
    [World(USBD_E_OK)
       EXCEPT !.obs.ev = [t |-> "mount", ep |-> 0, n |-> 0],
              !.obs.mnt = [cls |-> class, ret |-> USBD_E_OK, oob |-> FALSE]]

AppMountMsc ==
    \E cfg \in MscConfigs, ub \in UbOutcomes :
      LET w0 == [MountWorld("MSC") EXCEPT !.msc.Config = cfg]
      IN  \E wn \in {USBD_MSC_MountInterface(w0, ub)} : MountCall("MSC", w0, wn)

AppMountNcm ==
    \E cfg \in NcmConfigs, ub \in UbOutcomes :
      LET w0 == [MountWorld("NCM") EXCEPT !.ncm.Config = cfg]
      IN  \E wn \in {USBD_NCM_MountInterface(w0, ub)} : MountCall("NCM", w0, wn)

AppMountCdc ==
    \E cfg \in CdcConfigs, ub \in UbOutcomes :
      LET w0 == [MountWorld("CDC") EXCEPT !.cdc.Config = cfg]
      IN  \E wn \in {USBD_CDC_MountInterface(w0, ub)} : MountCall("CDC", w0, wn)

AppMountHid ==
    \E cfg \in HidConfigs, ub \in UbOutcomes :
      LET w0 == [MountWorld("HID") EXCEPT !.hid.Config = cfg]
      IN  \E wn \in {USBD_HID_MountInterface(w0, ub)} : MountCall("HID", w0, wn)

AppMountDfu ==
    LET w0 == MountWorld("DFU")
    IN  \E wn \in {USBD_DFU_MountInterface(w0)} : MountCall("DFU", w0, wn)

NextMount ==
    \/ AppMountMsc
    \/ AppMountNcm
    \/ AppMountCdc
    \/ AppMountHid
    \/ AppMountDfu

SpecMount == InitMount /\ [][NextMount]_vars

\* the endpoint addresses the Config of a class names, and the interface
\* slots the class takes
NamedEps(w, class) ==
    CASE class = "MSC" -> {w.msc.Config.InEpNum, w.msc.Config.OutEpNum}
      [] class = "NCM" -> {w.ncm.Config.InEpNum, w.ncm.Config.OutEpNum,
                           w.ncm.Config.NotEpNum}
      [] class = "CDC" -> {w.cdc.Config.InEpNum, w.cdc.Config.OutEpNum}
      [] class = "HID" -> {w.hid.Config.InEpNum}
      [] OTHER -> {}

SlotsOf(class) == IF class \in {"NCM", "CDC"} THEN 2 ELSE 1

\* C25: a mount call returns USBD_E_ERROR and leaves the interface table,
\* the interface count and the endpoint table as they were when the
\* interface needs more slots than are free or names an endpoint address
\* outside the endpoint tables; otherwise it returns USBD_E_OK
C25_MountChecked ==
    [][obs'.ev.t = "mount" =>
         LET class == obs'.mnt.cls
             named == NamedEps([msc |-> msc', ncm |-> ncm', cdc |-> cdc',
                                hid |-> hid'], class)
         IN  IF \/ SlotsOf(class) > USBD_MAX_IF_COUNT - dev.IfCount
                \/ \E e \in named : ~InTable(e)
             THEN /\ obs'.mnt.ret = USBD_E_ERROR
                  /\ dev'.If = dev.If
                  /\ dev'.IfCount = dev.IfCount
                  /\ dev'.EP = dev.EP
             ELSE obs'.mnt.ret = USBD_E_OK]_vars

\* the endpoints of the tables that the Config of a mounted class names,
\* and the interface that a completion on an endpoint is delivered to
\* (dev->IF[ep->IfNum])
ClaimedBy(class) ==
    {USBD_EpAddr2Ref(e) :
       e \in {a \in NamedEps([msc |-> msc, ncm |-> ncm, cdc |-> cdc,
                              hid |-> hid], class) : InTable(a)}}

Owner(e) == dev.If[dev.EP[e].IfNum]

\* C26: after mount calls that returned USBD_E_OK every claimed endpoint is
\* claimed by one interface only, and the completions on it are delivered
\* to that interface
C26_EndpointOwner ==
    \A class \in Mounted :
      \A e \in ClaimedBy(class) :
        /\ Owner(e) = class
        /\ \A other \in Mounted \ {class} : e \notin ClaimedBy(other)


----------------------------------------------------------------------------
(* The device with the CDC-ACM interface mounted (bulk IN 0x81, bulk OUT   *)
(* 0x01) and enumerated: bus reset and SET_CONFIGURATION(1) with its       *)
(* Status stage completed.  The host opens the data interface with         *)
(* SET_LINE_CODING, which also closes it first when it is open; the        *)
(* application transmits and the host takes the data.                      *)

BlankWorld ==
    [dev |-> DevBlank, pd |-> [PdInit EXCEPT !.on = TRUE],
     msc |-> MscInit, lu |-> LuInit, ncm |-> NcmInit,
     cdc |-> CdcInit, hid |-> HidInit, dfu |-> DfuInit, obs |-> ObsInit,
     ret |-> USBD_E_OK, io |-> USBD_E_OK, data |-> NullPtr]

SetConfiguration1 ==
    Setup(USB_DIRECTION_OUT, USB_REQ_TYPE_STANDARD, USB_REQ_RECIPIENT_DEVICE,
          USB_REQ_SET_CONFIGURATION, 1, 0, 0)

CdcEnumerated ==
    Bind(USBD_CDC_MountInterface(BlankWorld, "elsewhere"), LAMBDA w1 :
    Bind(USBD_ResetCallback(w1), LAMBDA w2 :
    NcmSetupDone(w2, SetConfiguration1)))

InitCdc ==
    /\ dev = CdcEnumerated.dev
    /\ pd  = CdcEnumerated.pd
    /\ msc = MscInit
    /\ lu  = LuInit
    /\ ncm = NcmInit
    /\ cdc = CdcEnumerated.cdc
    /\ hid = HidInit
    /\ dfu = DfuInit
    /\ obs = ObsInit

CdcSetups ==
    {Setup(H2D, USB_REQ_TYPE_CLASS, ITF, CDC_REQ_SET_LINE_CODING, 0, 0,
           SizeofLineCoding),
     Setup(D2H, USB_REQ_TYPE_CLASS, ITF, CDC_REQ_GET_LINE_CODING, 0, 0,
           SizeofLineCoding),
     Setup(H2D, USB_REQ_TYPE_CLASS, ITF, CDC_REQ_SET_CONTROL_LINE_STATE, 3, 0,
           0)}

\* the DataBits field of the line coding the host sends
DataBitsSent == {0, 8}

CdcRequest == HostSetup(CdcSetups, {USBD_E_OK})

CdcEp0OutDone == Ep0OutData(DataBitsSent)

\* lengths and data pointers of the application's transmissions: nothing,
\* less than a packet, one packet, two packets
CdcLens == {0, 10, USB_EP_BULK_FS_MPS, 2 * USB_EP_BULK_FS_MPS}

CdcPtrs == {[buf |-> BufApp, off |-> o] : o \in {0, 256}}

AppCdcTransmit ==
    \E data \in CdcPtrs, len \in CdcLens :
      LET w0 == [World(USBD_E_OK) EXCEPT
                   !.obs.ev = [t |-> "transmit", ep |-> 129, n |-> len]]
      IN  \E w1 \in {USBD_CDC_Transmit(w0, data, len)} :
          \E wn \in {IF w1.ret = USBD_E_OK
                     THEN [w1 EXCEPT !.obs.tx = [on |-> TRUE, data |-> data,
                                                 len |-> len, zlp |-> FALSE,
                                                 cbs |-> 0]]
                     ELSE w1} :
            /\ dev' = wn.dev
            /\ pd'  = wn.pd
            /\ msc' = wn.msc
            /\ lu'  = wn.lu
            /\ ncm' = wn.ncm
            /\ cdc' = wn.cdc
            /\ hid' = wn.hid
            /\ dfu' = wn.dfu
            /\ obs' = wn.obs

\* the host takes what was submitted on the bulk IN endpoint
CdcInDone ==
    /\ pd.on
    /\ pd.xfer[129] # <<>>
    /\ ~pd.halt[129]
    /\ LET x  == pd.xfer[129][1]
           w0 == [World(USBD_E_OK) EXCEPT
                    !.pd.xfer[129] = <<>>,
                    !.pd.ptr[129].off = @ + x.len,
                    !.obs.tx.zlp = @ \/ (x.len = 0 /\ obs.tx.len > 0),
                    !.obs.ev = [t |-> "in", ep |-> 129, n |-> x.len]]
       IN  \E wn \in {USBD_EpInCallback(w0, 129)} :
             /\ dev' = wn.dev
             /\ pd'  = wn.pd
             /\ msc' = wn.msc
             /\ lu'  = wn.lu
             /\ ncm' = wn.ncm
             /\ cdc' = wn.cdc
             /\ hid' = wn.hid
             /\ dfu' = wn.dfu
             /\ obs' = wn.obs

NextCdc ==
    \/ CdcRequest
    \/ Ep0InDone
    \/ CdcEp0OutDone
    \/ AppCdcTransmit
    \/ CdcInDone

SpecCdc == InitCdc /\ [][NextCdc]_vars

\* the Transmitted callbacks made by the handler that ran last
Transmitted == {i \in DOMAIN obs.app : obs.app[i].f = "Transmitted"}

\* the transfer started by USBD_CDC_Transmit needs a zero-length packet
NeedsZlp == obs.tx.len > 0 /\ obs.tx.len % USB_EP_BULK_FS_MPS = 0

\* C27: the Transmitted callback is made once for a transfer started by
\* USBD_CDC_Transmit, with the data pointer and the length of that
\* transfer, when its last packet has completed; for a length that is a
\* non-zero multiple of the packet size the last packet is the zero-length
\* packet the stack sends after the data
C27_TransmittedOnce ==
    /\ \A i \in Transmitted :
         obs.tx.on =>
         /\ obs.tx.cbs = 1
         /\ obs.app[i].a = obs.tx.data
         /\ obs.app[i].b = obs.tx.len
         /\ NeedsZlp => obs.tx.zlp
    /\ (/\ obs.ev.t = "in" /\ obs.ev.ep = 129 /\ obs.tx.on
        /\ IF NeedsZlp THEN obs.ev.n = 0 ELSE obs.ev.n = obs.tx.len)
       => Transmitted # {}

----------------------------------------------------------------------------
(* Device with the DFU interface alone.  The interface handle is set up by *)
(* USBD_DFU_BootInit in the bootloader, which stays in DFU mode when the   *)
(* tag asks for it and otherwise either stays (no firmware) or starts the  *)
(* application, which calls USBD_DFU_AppInit.  The host resets the bus,    *)
(* configures the device and sends class requests with any code in any     *)
(* state; the firmware callbacks succeed or fail.                          *)

DfuBooted(tag, app) ==
    Bind(USBD_DFU_BootInit([BlankWorld EXCEPT !.dfu.Tag = tag]), LAMBDA w1 :
    Bind(IF app THEN USBD_DFU_AppInit(w1) ELSE w1, LAMBDA w2 :
    USBD_DFU_MountInterface(w2)))

InitDfu ==
    \E app \in BOOLEAN :
      /\ dev = DfuBooted(FALSE, app).dev
      /\ pd  = DfuBooted(FALSE, app).pd
      /\ msc = MscInit
      /\ lu  = LuInit
      /\ ncm = NcmInit
      /\ cdc = CdcInit
      /\ hid = HidInit
      /\ dfu = DfuBooted(FALSE, app).dfu
      /\ obs = ObsInit

\* block size of the host's downloads and uploads
DfuBlock == 32

\* class request codes the host sends: the seven of the class and one more
DfuReqCodes == 0 .. DFU_CLASS_REQ_COUNT

DfuClassSetup(req, val, len) ==
    Setup(IF req \in {DFU_REQ_UPLOAD, DFU_REQ_GETSTATUS, DFU_REQ_GETSTATE}
          THEN D2H ELSE H2D, USB_REQ_TYPE_CLASS, ITF, req, val, 0, len)

DfuSetups ==
    {DfuClassSetup(req, 0, 0) :
       req \in DfuReqCodes \ {DFU_REQ_GETSTATUS, DFU_REQ_GETSTATE}}
    \cup {DfuClassSetup(req, val, DfuBlock) :
            req \in {DFU_REQ_DNLOAD, DFU_REQ_UPLOAD}, val \in 0 .. 1}
    \cup {DfuClassSetup(DFU_REQ_GETSTATUS, 0, SizeofDfuStatus),
          DfuClassSetup(DFU_REQ_GETSTATE, 0, 1),
          Setup(D2H, STD, ITF, USB_REQ_GET_DESCRIPTOR,
                DFU_DESC_TYPE_FUNCTIONAL * 256, 0, SizeofDfuFuncDesc),
          SetConfiguration1,
          [SetConfiguration1 EXCEPT !.Value = 0]}

\* what Erase, Write and Manifest of the application return
DfuResults == {DFU_ERROR_NONE, DFU_ERROR_WRITE}

DfuRequest == ~dfu.reboot /\ HostSetup(DfuSetups, {USBD_E_OK})

DfuEp0InDone == ~dfu.reboot /\ Ep0InData(DfuResults)

DfuEp0OutDone == ~dfu.reboot /\ Ep0OutDone

DfuBusReset == ~dfu.reboot /\ BusReset

\* the system restarts after the Reboot callback
SystemReboot ==
    /\ dfu.reboot
    /\ \E app \in BOOLEAN :
         /\ dfu.Tag => ~app
         /\ \E wn \in {DfuBooted(dfu.Tag, app)} :
              /\ dev' = wn.dev
              /\ pd'  = wn.pd
              /\ msc' = wn.msc
              /\ lu'  = wn.lu
              /\ ncm' = wn.ncm
              /\ cdc' = wn.cdc
              /\ hid' = wn.hid
              /\ dfu' = wn.dfu
              /\ obs' = [ObsInit EXCEPT !.ev = [t |-> "reboot", ep |-> 0,
                                                n |-> 0]]

NextDfu ==
    \/ DfuRequest
    \/ DfuEp0InDone
    \/ DfuEp0OutDone
    \/ DfuBusReset
    \/ SystemReboot

SpecDfu == InitDfu /\ [][NextDfu]_vars

\* the step is the handling of a class request that reaches the DFU
\* interface
DfuClassStep ==
    /\ obs'.ev.t = "setup"
    /\ dev'.Setup.Type = USB_REQ_TYPE_CLASS
    /\ dev'.Setup.Recipient = ITF
    /\ dev.ConfigSelector # 0
    /\ dev'.Setup.Index % 256 < dev.IfCount
    /\ dev.If[dev'.Setup.Index % 256] = "DFU"

\* the validity matrix allows the request of the step in the state the
\* interface has before it
DfuAllowed ==
    /\ dev'.Setup.Request < DFU_CLASS_REQ_COUNT
    /\ dfu.State \in dfu_validStates[dev'.Setup.Request + 1]

FirmwareCalls ==
    {i \in DOMAIN obs'.app :
       obs'.app[i].f \in {"Erase", "Write", "Read", "Manifest"}}

\* C28: a class request is accepted only if the validity matrix allows it
\* in the state of the interface; a request the matrix does not allow
\* (unknown codes included) is stalled, no firmware callback is made, and
\* the interface goes to the error state with status errSTALLEDPKT in DFU
\* mode, to appIdle in application mode, nothing else of it changing
C28_ValidityMatrix ==
    [][DfuClassStep =>
         /\ obs'.ctl.ret = USBD_E_OK => DfuAllowed
         /\ ~DfuAllowed =>
              /\ obs'.ctl.stalled
              /\ pd'.halt[0] /\ pd'.halt[128]
              /\ obs'.app = <<>>
              /\ FirmwareCalls = {}
              /\ dfu' = IF dfu.State < DFU_STATE_IDLE
                        THEN [dfu EXCEPT !.State = DFU_STATE_APP_IDLE]
                        ELSE [dfu EXCEPT !.State = DFU_STATE_ERROR,
                                         !.Status = DFU_ERROR_STALLEDPKT]]_vars

\* an unknown request code has put the configured interface in the error
\* state
C28_Witness ==
    /\ obs.ev.t = "setup"
    /\ dev.ConfigSelector # 0
    /\ dev.Setup.Type = USB_REQ_TYPE_CLASS
    /\ dev.Setup.Request = DFU_CLASS_REQ_COUNT
    /\ obs.ctl.stalled
    /\ dfu.State = DFU_STATE_ERROR
    /\ dfu.Status = DFU_ERROR_STALLEDPKT

----------------------------------------------------------------------------
(* Device with the HID interface alone (input reports on 0x81), mounted    *)
(* and enumerated.  The host sends the class requests with any duration    *)
(* and report ID, the application answers GET_REPORT or not, and sends     *)
(* input reports on the interrupt endpoint.                                *)

HidEnumerated ==
    Bind(USBD_HID_MountInterface(BlankWorld, "elsewhere"), LAMBDA w1 :
    Bind(USBD_ResetCallback(w1), LAMBDA w2 :
    NcmSetupDone(w2, SetConfiguration1)))

InitHid ==
    /\ dev = HidEnumerated.dev
    /\ pd  = HidEnumerated.pd
    /\ msc = MscInit
    /\ lu  = LuInit
    /\ ncm = NcmInit
    /\ cdc = CdcInit
    /\ hid = HidEnumerated.hid
    /\ dfu = DfuInit
    /\ obs = ObsInit

\* duration bytes and report IDs of the host's SET_IDLE requests
HidDurations == {0, 5, 255}
HidReportIds == {0, 1}

HidSetups ==
    {Setup(H2D, USB_REQ_TYPE_CLASS, ITF, HID_REQ_SET_IDLE, d * 256 + r, 0, 0) :
       d \in HidDurations, r \in HidReportIds}
    \cup {Setup(D2H, USB_REQ_TYPE_CLASS, ITF, HID_REQ_GET_IDLE, r, 0, 1) :
            r \in HidReportIds}
    \cup {Setup(D2H, USB_REQ_TYPE_CLASS, ITF, HID_REQ_GET_REPORT,
                HID_REPORT_INPUT * 256 + r, 0, HidInit.Report.InputMaxSize) :
            r \in HidReportIds}
    \cup {Setup(H2D, USB_REQ_TYPE_CLASS, ITF, HID_REQ_SET_REPORT,
                HID_REPORT_OUTPUT * 256, 0, HidInit.Report.OutputMaxSize),
          Setup(D2H, STD, ITF, USB_REQ_GET_DESCRIPTOR,
                HID_DESC_TYPE_HID * 256, 0, SizeofHidClassDesc),
          SetConfiguration1,
          [SetConfiguration1 EXCEPT !.Value = 0]}

HidRequest == HostSetup(HidSetups, {USBD_E_OK, USBD_E_ERROR})

\* the application sends an input report outside the GetReport callback
AppHidReportIn ==
    LET w0 == [World(USBD_E_OK) EXCEPT
                 !.obs.ev = [t |-> "report", ep |-> hid.Config.InEpNum,
                             n |-> hid.Report.InputMaxSize]]
    IN  \E wn \in {USBD_HID_ReportIn(w0, BufApp, hid.Report.InputMaxSize, 0)} :
          /\ dev' = wn.dev
          /\ pd'  = wn.pd
          /\ msc' = wn.msc
          /\ lu'  = wn.lu
          /\ ncm' = wn.ncm
          /\ cdc' = wn.cdc
          /\ hid' = wn.hid
          /\ dfu' = wn.dfu
          /\ obs' = wn.obs

\* the host takes the input report
HidInDone ==
    /\ pd.on
    /\ pd.xfer[129] # <<>>
    /\ ~pd.halt[129]
    /\ LET x  == pd.xfer[129][1]
           w0 == [World(USBD_E_OK) EXCEPT
                    !.pd.xfer[129] = <<>>,
                    !.pd.ptr[129].off = @ + x.len,
                    !.obs.ev = [t |-> "in", ep |-> 129, n |-> x.len]]
       IN  \E wn \in {USBD_EpInCallback(w0, 129)} :
             /\ dev' = wn.dev
             /\ pd'  = wn.pd
             /\ msc' = wn.msc
             /\ lu'  = wn.lu
             /\ ncm' = wn.ncm
             /\ cdc' = wn.cdc
             /\ hid' = wn.hid
             /\ dfu' = wn.dfu
             /\ obs' = wn.obs

NextHid ==
    \/ HidRequest
    \/ Ep0InDone
    \/ Ep0OutDone
    \/ BusReset
    \/ AppHidReportIn
    \/ HidInDone

SpecHid == InitHid /\ [][NextHid]_vars

\* a SET_IDLE request has just been handled by the interface
SetIdleHandled ==
    /\ obs.ev.t = "setup"
    /\ dev.ConfigSelector # 0
    /\ dev.Setup.Type = USB_REQ_TYPE_CLASS
    /\ dev.Setup.Recipient = ITF
    /\ dev.Setup.Request = HID_REQ_SET_IDLE

SetIdleCalls == {i \in DOMAIN obs.app : obs.app[i].f = "SetIdle"}

\* C29: after SET_IDLE with duration d and report ID r the SetIdle callback
\* has been made once, with report ID r and 4 * d ms, or
\* HID_IDLE_RATE_INDEFINITE for d = 0; the idle rate of the interface is d
\* when r = 0; and the Status stage packet is queued on EP0 IN
C29_SetIdle ==
    SetIdleHandled =>
      LET d == dev.Setup.Value \div 256
          r == dev.Setup.Value % 256
      IN  /\ Cardinality(SetIdleCalls) = 1
          /\ \A i \in SetIdleCalls :
               /\ obs.app[i].b = r
               /\ obs.app[i].a = IF d > 0 THEN 4 * d
                                 ELSE HID_IDLE_RATE_INDEFINITE
          /\ r = 0 => hid.IdleRate = d
          /\ obs.ctl.ret = USBD_E_OK
          /\ ~obs.ctl.stalled
          /\ pd.xfer[128] = <<[data |-> BufNULL, len |-> 0,
                               stage |-> USB_EP_STATE_STATUS]>>

----------------------------------------------------------------------------
(* The MSC interface with a host that keeps its part of the Bulk-Only      *)
(* Transport: it completes every control transfer and every data phase     *)
(* the device arms, and clears every halt the device raises.               *)

\* valid command packets with and without data: commands that answer with
\* data, commands that pass without data, zero-length reads and writes, and
\* an unknown command
LivePackets ==
    {[cbw |-> c, n |-> SizeofCBW] :
       c \in UNION {{Cbw(t, 0, 0, SCSI_TEST_UNIT_READY, 0, 0, 0),
                     Cbw(t, 0, 0, SCSI_START_STOP_UNIT, 0, 0, 0),
                     Cbw(t, BlockLen, 0, SCSI_START_STOP_UNIT, 0, 0, 0),
                     Cbw(t, SizeofInquiry, 128, SCSI_INQUIRY, 0, 0,
                         SizeofInquiry),
                     Cbw(t, 0, 128, SCSI_READ10, 0, 0, 0),
                     Cbw(t, BlockLen, 128, SCSI_READ10, 0, 0, 1),
                     Cbw(t, 0, 0, SCSI_WRITE10, 0, 0, 0),
                     Cbw(t, BlockLen, 0, SCSI_WRITE10, 0, 0, 1),
                     Cbw(t, BlockLen, 128, 255, 0, 0, 0)}
                    : t \in Tags}}

LiveCommand == HostCbw(LivePackets)

NextMscLive ==
    \/ PowerOnReset
    \/ MscRequest
    \/ Ep0InDone
    \/ LiveCommand
    \/ HostDataOut
    \/ BulkInDone

SpecMscLive ==
    /\ Init
    /\ [][NextMscLive]_vars
    /\ WF_vars(MscRequest)
    /\ WF_vars(Ep0InDone)
    /\ WF_vars(HostDataOut)
    /\ WF_vars(BulkInDone)

\* the command packet with tag t has been received and its CSW has not
\* been read by the host; every packet of LivePackets passes MSC_CbwValid
CbwOpen(t) == obs.bot.open /\ msc.CBW.dTag = t

\* the host has read the CSW with tag t, and the interface waits for the
\* next command packet
CswRead(t) ==
    /\ ~obs.bot.open
    /\ obs.ev.t = "in"
    /\ msc.CSW.dTag = t
    /\ msc.State = MSC_STATE_COMMAND_OUT
    /\ pd.xfer[1] # <<>>
    /\ pd.xfer[1][1].data = BufCBW
    /\ pd.xfer[1][1].len = SizeofCBW

\* C30: every valid command packet is answered by the CSW with its tag,
\* after which the interface is in CommandOut with the reception of a
\* command packet armed
C30_EveryCbwAnswered == \A t \in Tags : CbwOpen(t) ~> CswRead(t)

-----------------------------------------------------------------------------
\* Reset recovery started from any state of the MSC interface
\* (Class/MSC/usbd_msc.c, Device/usbd_ep.c): the host sends the Bulk-Only
\* Mass Storage Reset and the two CLEAR_FEATURE(ENDPOINT_HALT) requests at
\* any moment, whether or not an endpoint is halted, and moves no bulk data
\* between the three requests.

InitSeq ==
    /\ dev = DevInit
    /\ pd  = PdInit
    /\ msc = MscInit
    /\ lu  = LuInit
    /\ ncm = NcmInit
    /\ cdc = CdcInit
    /\ hid = HidInit
    /\ dfu = DfuInit
    /\ obs = [ObsInit EXCEPT !.seq = "none"]

\* the host is between two requests of the recovery sequence
SeqRunning == obs.seq \in {"reset", "in"}

SeqRequest == HostSetup(RecSetups, {USBD_E_OK})

SeqCommand == ~SeqRunning /\ HostCbw(RecPackets)

SeqDataOut == ~SeqRunning /\ HostDataOut

SeqBulkInDone == ~SeqRunning /\ BulkInDone

NextSeq ==
    \/ PowerOnReset
    \/ SeqRequest
    \/ Ep0InDone
    \/ SeqCommand
    \/ SeqDataOut
    \/ SeqBulkInDone

SpecSeq == InitSeq /\ [][NextSeq]_vars

\* C31: when the setup stage of the last request of the sequence
\* Bulk-Only Mass Storage Reset, CLEAR_FEATURE(HALT) bulk IN,
\* CLEAR_FEATURE(HALT) bulk OUT has been handled, whatever the state the
\* sequence started in with the device configured, the interface is in
\* CommandOut with Normal status,
\* the reception of a command packet is armed and no bulk endpoint is
\* halted
C31_RecoveryFromAnyState ==
    (obs.seq = "done" /\ obs.ev.t = "setup" /\ dev.ConfigSelector = 1) =>
        /\ msc.State = MSC_STATE_COMMAND_OUT
        /\ msc.Status = MSC_STATUS_NORMAL
        /\ pd.xfer[1] = <<[data |-> BufCBW, len |-> SizeofCBW,
                           stage |-> USB_EP_STATE_DATA]>>
        /\ ~pd.halt[1] /\ ~pd.halt[129]

-----------------------------------------------------------------------------
\* The NCM transmit ring after a datagram that found no room in the page
\* being filled (Class/CDC/usbd_ncm.c, USBD_NCM_AllocDatagram,
\* USBD_NCM_PutDatagram, ncm_inData)

\* the application has no datagram between alloc_datagram and set_datagram
NoAllocOpen == obs.net.pend = <<>>

\* a datagram of the given length fits in the page being filled
DatagramFits(length) ==
    /\ length <= NCM_MAX_SEGMENT_SIZE
    /\ RoundUp4(length) + SizeofDatagram16 <= ncm.In.RemSize

\* C32: whatever alloc_datagram and put_datagram calls failed before, the
\* datagrams committed are submitted when the completion of the NTB in
\* flight has been handled, and a put_datagram on the connected interface
\* is refused only for a datagram that does not fit in the page being filled
C32_TxRingUsable ==
    /\ (obs.ev.t = "in" /\ obs.ev.ep = 129 /\ NoAllocOpen)
           => obs.net.com = <<>>
    /\ (obs.ev.t = "put" /\ ncm.Connection # 0 /\ NoAllocOpen
           /\ ncm.In.FillState = NTB_PROCESSING)
           => ~DatagramFits(obs.ev.n)

-----------------------------------------------------------------------------
\* The loop of ncm_outData that verifies the chain of NDP16 tables
\* (Class/CDC/usbd_ncm.c), one iteration per step.  obs.walk is the position
\* of the handler: "idle" outside ncm_outData, "loop" at the while
\* condition with ndpIndex, "tail" behind the loop; turn is the parity of
\* the iterations executed.  The handler runs in the interrupt of the bulk
\* OUT endpoint, nothing else runs until it returns.

\* blocks whose NDP chain comes back to a table already visited: a table
\* that names itself, and two tables that name each other
CyclicNtbs ==
    {Ntb(TRUE, SizeofNTH16, 88, 12,
         <<Ndp(12, TRUE, 16, 12, <<Dg(28, 60), DgNone>>)>>),
     Ntb(TRUE, SizeofNTH16, 124, 28,
         <<Ndp(28, TRUE, 16, 12, <<Dg(44, 40), DgNone>>),
           Ndp(12, TRUE, 16, 28, <<Dg(84, 40), DgNone>>)>>)}

WalkPackets ==
    NcmPackets
    \cup {[ntb |-> b, n |-> b.BlockLength, ok |-> FALSE] : b \in CyclicNtbs}

WalkIdle == obs.walk.pc = "idle"

WalkConnect == WalkIdle /\ AppNcmConnect

WalkGetDatagram == WalkIdle /\ AppGetDatagram

\* the page the transfer on bulk OUT was received into
WalkPage ==
    IF [buf |-> pd.ptr[1].buf, off |-> pd.ptr[1].off - dev.EP[1].Length]
         = [buf |-> BufOut(0), off |-> 0] THEN 0 ELSE 1

\* the host sends a block to the armed bulk OUT endpoint and ncm_outData
\* runs up to the while loop
WalkNtb ==
    /\ WalkIdle
    /\ pd.on
    /\ pd.xfer[1] # <<>>
    /\ ~pd.halt[1]
    /\ obs.net.nsent < MaxNtb
    /\ \E p \in WalkPackets :
         LET x    == pd.xfer[1][1]
             page == IF x.data = BufOut(0) THEN 0 ELSE 1
             n    == Min(p.n, x.len)
             b    == [p.ntb EXCEPT !.id = obs.net.nsent + 1]
             head == /\ b.BlockLength = n
                     /\ b.HeaderLength = SizeofNTH16
                     /\ b.Signature
         IN  /\ pd' = [pd EXCEPT !.xfer[1] = <<>>, !.ptr[1].off = n]
             /\ dev' = [dev EXCEPT !.EP[1].Length = n]
             /\ ncm' = [ncm EXCEPT !.Out.Data[page] = b]
             /\ obs' = [obs EXCEPT
                          !.net.nsent = @ + 1,
                          !.net.rx = [id |-> b.id, page |-> page, ok |-> p.ok],
                          !.net.exp = IF p.ok
                                      THEN @ \o NtbDatagrams(b, b.NdpIndex)
                                      ELSE @,
                          !.net.drop = IF p.ok THEN @ ELSE @ \cup {b.id},
                          !.ev = [t |-> "ntb", ep |-> 1, n |-> n],
                          !.walk = [pc |-> IF head THEN "loop" ELSE "tail",
                                    ndpIndex |-> b.NdpIndex, turn |-> 0]]
             /\ UNCHANGED <<msc, lu, cdc, hid, dfu>>

\* one evaluation of the while condition and, when it holds, one execution
\* of the loop body
WalkStep ==
    /\ obs.walk.pc = "loop"
    /\ LET nth      == ncm.Out.Data[WalkPage]
           ndpIndex == obs.walk.ndpIndex
           pt       == NdpAt(nth, ndpIndex)
           cond     == /\ ndpIndex >= SizeofNTH16
                       /\ ndpIndex < nth.BlockLength
                       /\ pt.Signature
                       /\ pt.Length > SizeofNDP16
       IN  obs' = [obs EXCEPT
                     !.walk = IF ~cond
                              THEN [@ EXCEPT !.pc = "tail"]
                              ELSE [pc |-> IF pt.NextNdpIndex = 0
                                           THEN "tail" ELSE "loop",
                                    ndpIndex |-> pt.NextNdpIndex,
                                    turn |-> 1 - @.turn]]
    /\ UNCHANGED <<dev, pd, msc, lu, ncm, cdc, hid, dfu>>

\* the rest of the handler, behind the loop, and its return
WalkReturn ==
    /\ obs.walk.pc = "tail"
    /\ LET w0 == [World(USBD_E_OK) EXCEPT
                    !.obs.walk = [pc |-> "idle", ndpIndex |-> 0, turn |-> 0]]
       IN  \E wn \in {USBD_EpOutCallback(w0, 1)} :
             /\ dev' = wn.dev
             /\ pd'  = wn.pd
             /\ msc' = wn.msc
             /\ lu'  = wn.lu
             /\ ncm' = wn.ncm
             /\ cdc' = wn.cdc
             /\ hid' = wn.hid
             /\ dfu' = wn.dfu
             /\ obs' = wn.obs

NextWalk ==
    \/ WalkConnect
    \/ WalkNtb
    \/ WalkStep
    \/ WalkReturn
    \/ WalkGetDatagram

\* the processor executes the handler it has entered
SpecWalk ==
    /\ InitNcm
    /\ [][NextWalk]_vars
    /\ WF_vars(WalkStep)
    /\ WF_vars(WalkReturn)

\* C33: whatever block the host sends, the loop that verifies its NDP chain
\* is left and ncm_outData returns
C33_ValidationTerminates == (obs.walk.pc = "loop") ~> WalkIdle

-----------------------------------------------------------------------------
\* The NCM transmit path under SET_NTB_INPUT_SIZE requests of the host
\* (Class/CDC/usbd_ncm.c, ncm_dataStage, USBD_NCM_AllocDatagram,
\* ncm_sendNTB)

\* values of dwNtbInMaxSize: the size of the pages of the device, twice
\* their size, and a value with the top bits set
WideInputSizes == {USBD_NCM_MAX_IN_SIZE, 4096, 2147483647}

NcmSizeRequest ==
    HostSetup({Setup(H2D, USB_REQ_TYPE_CLASS, ITF, CDC_REQ_SET_NTB_INPUT_SIZE,
                     0, 0, SizeofNtbInputSize)}, {USBD_E_OK})

NcmSizeData == Ep0OutData(WideInputSizes)

NcmSizePut == AppPutDatagram({100, NCM_MAX_SEGMENT_SIZE})

NextNcmSize ==
    \/ NcmSizeRequest
    \/ NcmSizeData
    \/ Ep0InDone
    \/ AppNcmConnect
    \/ NcmNotDone
    \/ NcmSizePut
    \/ NcmInDone

SpecNcmSize == InitNcm /\ [][NextNcmSize]_vars

\* the bytes index .. index + length - 1 lie inside a transmit page
InsideInPage(index, length) == index + length <= USBD_NCM_MAX_IN_SIZE

\* C34: every datagram the transmit path has placed, every NDP16 it has
\* written and every block it has submitted on the bulk IN endpoint lies
\* inside the page of USBD_NCM_MAX_IN_SIZE bytes it belongs to, whatever
\* values the host has sent with SET_NTB_INPUT_SIZE
C34_TxInsidePage ==
    /\ \A i \in 1 .. Len(obs.net.pend) :
          InsideInPage(obs.net.pend[i].Index, obs.net.pend[i].Length)
    /\ \A i \in 1 .. Len(obs.net.com) :
          InsideInPage(obs.net.com[i].Index, obs.net.com[i].Length)
    /\ obs.net.ntb.any =>
          /\ \A i \in 1 .. Len(obs.net.ntb.com) :
                InsideInPage(obs.net.ntb.com[i].Index,
                             obs.net.ntb.com[i].Length)
          /\ InsideInPage(obs.net.ntb.pt.at, obs.net.ntb.pt.Length)
          /\ InsideInPage(0, obs.net.ntb.len)

-----------------------------------------------------------------------------
\* USBD_NCM_SetDatagram called by the application in thread context while
\* the completion interrupts of the bulk IN and notification endpoints run
\* ncm_inData (Class/CDC/usbd_ncm.c).  The interrupt handlers run to their
\* end; the interrupt can arrive between the read of In.SendState and the
\* write that follows it in USBD_NCM_SetDatagram.  obs.set is the position
\* of the application in USBD_NCM_SetDatagram: "idle" outside, "read" when
\* it has read In.Page and compared In.SendState with NTB_EMPTY.

SetIdle == obs.set.pc = "idle"

RaceConnect == SetIdle /\ AppNcmConnect

RaceAllocDatagram == SetIdle /\ AppAllocDatagram({100, NCM_MAX_SEGMENT_SIZE})

\* USBD_NCM_SetDatagram up to the comparison of In.SendState
SetDatagramRead ==
    /\ SetIdle
    /\ pd.on
    /\ obs.net.pend # <<>>
    /\ obs' = IF ncm.In.FillState = NTB_PROCESSING
              THEN [obs EXCEPT
                      !.net.com = @ \o obs.net.pend,
                      !.net.pend = <<>>,
                      !.ev = [t |-> "set", ep |-> 0, n |-> 0],
                      !.set = [pc |-> "read",
                               busy |-> ncm.In.SendState # NTB_EMPTY,
                               page |-> ncm.In.Page]]
              ELSE [obs EXCEPT !.ev = [t |-> "set", ep |-> 0, n |-> 1]]
    /\ UNCHANGED <<dev, pd, msc, lu, ncm, cdc, hid, dfu>>

\* the branch USBD_NCM_SetDatagram has chosen, and its return
SetDatagramWrite ==
    /\ obs.set.pc = "read"
    /\ LET w0 == [World(USBD_E_OK) EXCEPT
                    !.obs.set = [pc |-> "idle", busy |-> FALSE, page |-> 0]]
       IN  \E wn \in {IF obs.set.busy
                      THEN [w0 EXCEPT !.ncm.In.FillState = NTB_READY]
                      ELSE ncm_sendNTB(w0, obs.set.page)} :
             /\ dev' = wn.dev
             /\ pd'  = wn.pd
             /\ msc' = wn.msc
             /\ lu'  = wn.lu
             /\ ncm' = wn.ncm
             /\ cdc' = wn.cdc
             /\ hid' = wn.hid
             /\ dfu' = wn.dfu
             /\ obs' = wn.obs

NextNcmRace ==
    \/ RaceConnect
    \/ NcmNotDone
    \/ RaceAllocDatagram
    \/ SetDatagramRead
    \/ SetDatagramWrite
    \/ NcmInDone

SpecNcmRace == InitNcm /\ [][NextNcmRace]_vars

\* C35: whenever the application is outside set_datagram and the page
\* being filled is Ready, a transfer is pending on the bulk IN endpoint or
\* on the notification endpoint, whose completion sends the page
C35_ReadyPageHasTransfer ==
    (SetIdle /\ ncm.Connection # 0 /\ ncm.In.FillState = NTB_READY)
        => pd.xfer[129] # <<>> \/ pd.xfer[130] # <<>>

-----------------------------------------------------------------------------
\* The network link of the NCM interface: USBD_NCM_Connect and
\* USBD_NCM_Disconnect called by the application in any order, with the
\* transmit path (Class/CDC/usbd_ncm.c).  After these calls obs.ev.n is the
\* value the call returned.  The datagrams of a connection that has ended
\* are no longer expected on the bus.

LinkConnect ==
    /\ pd.on
    /\ LET w0 == [World(USBD_E_OK) EXCEPT
                    !.obs.ev = [t |-> "connect", ep |-> 0, n |-> 0]]
       IN  \E w1 \in {USBD_NCM_Connect(w0)} :
           \E wn \in {[w1 EXCEPT !.obs.ev.n = w1.ret]} :
             /\ dev' = wn.dev
             /\ pd'  = wn.pd
             /\ msc' = wn.msc
             /\ lu'  = wn.lu
             /\ ncm' = wn.ncm
             /\ cdc' = wn.cdc
             /\ hid' = wn.hid
             /\ dfu' = wn.dfu
             /\ obs' = wn.obs

LinkDisconnect ==
    /\ pd.on
    /\ LET w0 == [World(USBD_E_OK) EXCEPT
                    !.obs.ev = [t |-> "unlink", ep |-> 0, n |-> 0]]
       IN  \E w1 \in {USBD_NCM_Disconnect(w0)} :
           \E wn \in {[w1 EXCEPT
                         !.obs.ev.n = w1.ret,
                         !.obs.net.com = IF w1.ncm.Connection = 0
                                         THEN <<>> ELSE @,
                         !.obs.net.pend = IF w1.ncm.Connection = 0
                                          THEN <<>> ELSE @]} :
             /\ dev' = wn.dev
             /\ pd'  = wn.pd
             /\ msc' = wn.msc
             /\ lu'  = wn.lu
             /\ ncm' = wn.ncm
             /\ cdc' = wn.cdc
             /\ hid' = wn.hid
             /\ dfu' = wn.dfu
             /\ obs' = wn.obs

LinkPut == AppPutDatagram({100, NCM_MAX_SEGMENT_SIZE})

NextNcmLink ==
    \/ LinkConnect
    \/ LinkDisconnect
    \/ NcmNotDone
    \/ LinkPut
    \/ NcmInDone

SpecNcmLink == InitNcm /\ [][NextNcmLink]_vars

\* the connection notification of a connect call is pending on the
\* notification endpoint
ConnectNotifying ==
    /\ pd.xfer[130] # <<>>
    /\ pd.xfer[130][1].data = BufNotify

\* C36: while the connection notification of a connect call is pending, no
\* NTB is submitted on the bulk IN endpoint; when its completion has been
\* handled on the connected interface, every datagram committed in the
\* meantime has been submitted
C36_HeldUntilNotified ==
    /\ (ncm.Connection # 0 /\ ConnectNotifying) => pd.xfer[129] = <<>>
    /\ (/\ obs.ev.t = "in" /\ obs.ev.ep = 130 /\ obs.ev.n = SizeofNotify
        /\ ncm.Connection # 0)
           => obs.net.com = <<>>

\* C38: when connect has returned Busy the interface is disconnected: the
\* connection value is 0, the bulk endpoints are closed and no reception
\* is armed
C38_BusyConnect ==
    (obs.ev.t = "connect" /\ obs.ev.n = USBD_E_BUSY) =>
        /\ ncm.Connection = 0
        /\ dev.EP[129].State = USB_EP_STATE_CLOSED
        /\ dev.EP[1].State = USB_EP_STATE_CLOSED
        /\ pd.xfer[1] = <<>>

-----------------------------------------------------------------------------
\* Firmware download with other control requests between DFU_DNLOAD and
\* DFU_GETSTATUS (Class/DFU/usbd_dfu.c, Device/usbd_desc.c, Device/usbd.c).
\* The contents of dev->CtrlData are followed in obs.buf; obs.wrote is the
\* contents passed to the Write callback called last.

InitDfuBuf ==
    /\ dev = DfuBooted(FALSE, FALSE).dev
    /\ pd  = DfuBooted(FALSE, FALSE).pd
    /\ msc = MscInit
    /\ lu  = LuInit
    /\ ncm = NcmInit
    /\ cdc = CdcInit
    /\ hid = HidInit
    /\ dfu = DfuBooted(FALSE, FALSE).dfu
    /\ obs = [ObsInit EXCEPT !.buf = [by |-> "dev", blk |-> 0]]

\* DFU_DNLOAD of the blocks 0 and 1, DFU_GETSTATUS, DFU_CLRSTATUS, and the
\* standard requests GET_STATUS and GET_DESCRIPTOR(DEVICE)
DfuBufSetups ==
    {DfuClassSetup(DFU_REQ_DNLOAD, val, DfuBlock) : val \in 0 .. 1}
    \cup {DfuClassSetup(DFU_REQ_GETSTATUS, 0, SizeofDfuStatus),
          DfuClassSetup(DFU_REQ_CLRSTATUS, 0, 0),
          Setup(D2H, STD, DEV, USB_REQ_GET_STATUS, 0, 0, 2),
          Setup(D2H, STD, DEV, USB_REQ_GET_DESCRIPTOR,
                USB_DESC_TYPE_DEVICE * 256, 0, SizeofDeviceDesc),
          SetConfiguration1}

\* the host starts a control transfer when the previous one has ended
DfuBufRequest == Ep0Quiet /\ HostSetup(DfuBufSetups, {USBD_E_OK})

DfuBufEp0InDone == Ep0InData(DfuResults)

NextDfuBuf ==
    \/ DfuBufRequest
    \/ DfuBufEp0InDone
    \/ Ep0OutDone

SpecDfuBuf == InitDfuBuf /\ [][NextDfuBuf]_vars

\* the handler that ran last has called the Write callback
WriteCalled == \E i \in DOMAIN obs.app : obs.app[i].f = "Write"

\* C37: the Write callback is called once per handler, with the bytes the
\* host sent in the Data stage of the DFU_DNLOAD request of the block that
\* was accepted last, at the address of that block
C37_WriteReceivedBlock ==
    WriteCalled =>
        /\ Cardinality({i \in DOMAIN obs.app : obs.app[i].f = "Write"}) = 1
        /\ obs.wrote = [by |-> "host", blk |-> dfu.BlockNum]
        /\ \A i \in DOMAIN obs.app :
              obs.app[i].f = "Write" =>
                 /\ obs.app[i].a = dfu.BlockNum * DfuBlock
                 /\ obs.app[i].b = DfuBlock


----------------------------------------------------------------------------
(* VERIFY10 after other commands.  The host verifies ranges inside the     *)
(* medium, at its end and past its end, between reads and writes.          *)

VerifyCBWs ==
    UNION {
      {Cbw(t, 0, 0, SCSI_VERIFY10, f, lba, len) :
         f \in {0, 1}, lba \in 0 .. MaxBlocks + 1, len \in 0 .. 1}
      \cup {Cbw(t, len * BlockLen, 128, SCSI_READ10, 0, 0, len) :
              len \in 1 .. MaxBlocks}
      \cup {Cbw(t, BlockLen, 0, SCSI_WRITE10, 0, MaxBlocks - 1, 1)}
      : t \in Tags}

VerifyPackets == {[cbw |-> c, n |-> SizeofCBW] : c \in VerifyCBWs}

VerifyCommand == HostCbw(VerifyPackets)

NextVerify ==
    \/ PowerOnReset
    \/ MscRequest
    \/ Ep0InDone
    \/ VerifyCommand
    \/ HostDataOut
    \/ BulkInDone

SpecVerify == Init /\ [][NextVerify]_vars

\* the device has just taken a VERIFY10 command without byte check
VerifyTaken ==
    /\ obs.ev.t = "cbw"
    /\ obs.bot.scsi = 1
    /\ msc.CBW.CB.op = SCSI_VERIFY10
    /\ msc.CBW.CB.flag = 0

\* C39: a VERIFY10 command with BYTCHK = 0 passes exactly when the LBA plus
\* the block count of its own command block is at most the block count of
\* the logical unit, whatever READ10, WRITE10 or VERIFY10 ran before it.
C39_VerifyOwnRange ==
    VerifyTaken =>
        ((msc.CSW.bStatus = MSC_CSW_CMD_PASSED)
            <=> (msc.CBW.CB.lba + msc.CBW.CB.len <= lu.BlockCount))


----------------------------------------------------------------------------
(* READ10 and WRITE10 over the whole range of the 32-bit LBA.  The host    *)
(* reads and writes inside the medium, across its end, past its end and at *)
(* the last LBA a command block can carry, 0xFFFFFFFF, which U32 writes as *)
(* -1.                                                                     *)

RangeLbas == {0, MaxBlocks - 1, MaxBlocks, 0 - 1}

RangeCBWs ==
    UNION {
      {Cbw(t, len * BlockLen, 128, SCSI_READ10, 0, lba, len) :
         lba \in RangeLbas, len \in 1 .. MaxBlocks}
      \cup {Cbw(t, len * BlockLen, 0, SCSI_WRITE10, 0, lba, len) :
              lba \in RangeLbas, len \in 1 .. MaxBlocks}
      : t \in Tags}

RangePackets == {[cbw |-> c, n |-> SizeofCBW] : c \in RangeCBWs}

RangeCommand == HostCbw(RangePackets)

NextRange ==
    \/ PowerOnReset
    \/ MscRequest
    \/ Ep0InDone
    \/ RangeCommand
    \/ HostDataOut
    \/ BulkInDone

SpecRange == Init /\ [][NextRange]_vars

\* the calls of LU->Read and LU->Write made by the handler that ran last
LuCalls == {i \in DOMAIN obs.app : obs.app[i].f \in {"Read", "Write"}}

\* LBA + length > block_count without wrap-around, for an LBA in the
\* writing of U32 and a 16-bit length
BeyondMedium(lba, len) == lba < 0 \/ lba + len > lu.BlockCount

\* the device has just taken a READ10 or WRITE10 command
RwTaken ==
    /\ obs.ev.t = "cbw"
    /\ obs.bot.scsi = 1
    /\ msc.CBW.CB.op \in {SCSI_READ10, SCSI_WRITE10}

\* the blocks of the command moved on the bulk endpoints so far
BlocksMoved == obs.bot.xferred \div lu.BlockSize

\* C40: READ10 and WRITE10 never call LU->Read / LU->Write with a block
\* range that ends beyond block_count; a command whose LBA plus length,
\* computed without 32-bit wrap-around, is above block_count is rejected
\* with sense (IllegalRequest, AddressOutOfRange); and the block address
\* passed to the logical unit is the LBA of the command block plus the
\* number of blocks already transferred.
C40_RangeChecked ==
    /\ \A i \in LuCalls : obs.app[i].a + obs.app[i].b <= lu.BlockCount
    /\ (RwTaken /\ BeyondMedium(msc.CBW.CB.lba, msc.CBW.CB.len)) =>
          /\ msc.CSW.bStatus = MSC_CSW_CMD_FAILED
          /\ msc.Sense = [Key |-> SCSI_SKEY_ILLEGAL_REQUEST,
                          ASC |-> SCSI_ASC_ADDRESS_OUT_OF_RANGE]
    /\ \A i \in LuCalls :
          obs.app[i].a =
             IF obs.app[i].f = "Read"
             THEN msc.CBW.CB.lba + BlocksMoved
             ELSE msc.CBW.CB.lba + BlocksMoved - obs.app[i].b

====
